---- MODULE Spec2Model ----
(***************************************************************************)
(* A model of the pyrill pipeline engine (pyrill/base.py,                  *)
(* pyrill/primitives.py, pyrill/chunks.py, pyrill/queues.py).              *)
(*                                                                         *)
(* asyncio runs the tasks of one event loop cooperatively: a task runs     *)
(* until it awaits something that is not ready.  Every action below is one *)
(* such run of one task, from the point where it resumes to the point      *)
(* where it suspends again (or returns to the caller).  The places where a *)
(* task can be suspended are the values of the pc variables.               *)
(*                                                                         *)
(* Each component has its own variables, initial condition, next-state     *)
(* relation and specification; the variables of the other components stay  *)
(* at their initial values.                                                *)
(***************************************************************************)
EXTENDS Integers, Sequences, FiniteSets, TLC

\* ---------------------------------------------------------------- bounds
\* number of outputs attached to the Tee
NOutputs == 2
\* largest number of frames the upstream of a combinator yields
MaxFrames == 3
\* the payload values of the frames
FrameVals == 1..2

VARIABLES
    \* ---- Tee (primitives.py, class Tee) and its upstream source
    tee_data,        \* the frames the upstream yields, then end-of-stream
    tee_pos,         \* how many of them the upstream has handed out
    tee_state,       \* Tee._state
    tee_src_state,   \* Tee._source._state
    tee_consumers,   \* Tee._consumers (the attached inner producers)
    tee_futs,        \* Tee._futs: inner producer -> future (0: no entry)
    tee_heap,        \* the Future objects created by Tee.request_frame
    tee_pc,          \* where the task of each output is
    tee_fut,         \* the local variable fut of each output's request_frame
    tee_obs          \* the frames each output's next() has returned

teeVars == <<tee_data, tee_pos, tee_state, tee_src_state, tee_consumers,
             tee_futs, tee_heap, tee_pc, tee_fut, tee_obs>>

VARIABLES
    \* ---- Branch (primitives.py, class Branch) and its upstream source
    br_data,         \* the frames the upstream yields, then end-of-stream
    br_pos,          \* how many of them the upstream has handed out
    br_state,        \* Branch._state
    br_src_state,    \* Branch._source._state
    br_branches,     \* the keys of Branch._branches
    br_added,        \* the keys add_branch was called with
    br_callback,     \* Branch._on_unknown_branch: "none", or "raises" for a
                     \* callback that raises
    br_futs,         \* Branch._futs: key -> future (0: no entry)
    br_heap,         \* the Future objects created by Branch.request_frame
    br_pc,           \* where the task pulling each key's inner producer is
    br_fut,          \* the local variable fut of each key's request_frame
    br_obs           \* the frames each key's next() has returned

brVars == <<br_data, br_pos, br_state, br_src_state, br_branches, br_added, br_callback,
            br_futs, br_heap, br_pc, br_fut, br_obs>>

VARIABLES
    \* ---- Cache (primitives.py, classes Cache and CacheBridge)
    ca_data,         \* the frames the upstream yields
    ca_fail,         \* whether the upstream raises a fatal error after them
    ca_restarts,     \* whether mounting the upstream restarts its iterator
    ca_iter,         \* Cache._source._iter: how far the upstream iterator is
    ca_handed,       \* how many frames the upstream has handed out in total
    ca_pulls,        \* how many upstream pulls the Cache has issued
    ca_state,        \* Cache._state
    ca_src_state,    \* Cache._source._state
    cached_data,     \* Cache._cached_data, the ledger
    next_fut,        \* Cache._next_fut (0: None)
    ca_heap,         \* the Future objects created by get_cached_item
    cb_state,        \* CacheBridge._state of each replay
    cb_idx,          \* CacheBridge._idx of each replay
    cb_pc,           \* where the task of each replay is
    cb_fut,          \* the future a replay waits for in get_cached_item
    cb_obs           \* what each replay has seen: frames, then how it ended

caVars == <<ca_data, ca_fail, ca_restarts, ca_iter, ca_handed, ca_pulls,
            ca_state, ca_src_state, cached_data, next_fut, ca_heap,
            cb_state, cb_idx, cb_pc, cb_fut, cb_obs>>

VARIABLES
    \* ---- Queue (queues.py) on BaseIndependentConsumerStage (base.py)
    q_data,          \* the frames the upstream yields, then end-of-stream
    q_fail,          \* whether the upstream raises a fatal exception after
                     \* the frames (a generator that raises: it is exhausted
                     \* afterwards and the next pull ends the stream)
    q_pos,           \* how many of them the background loop has pulled
    queue_size,      \* Queue._queue_size (0: unbounded)
    q_state,         \* Queue._state
    q_queue,         \* the items in Queue._queue
    q_has_queue,     \* whether Queue._queue is an AsyncQueue (not None)
    q_open,          \* Queue._open_queue
    consumer_fut,    \* Queue._consumer_fut: "none", "running" or "done"
    q_loop_pc,       \* where the task of _consume_all is
    q_loop_item,     \* the item the loop is putting while the queue is full
    q_unmount_task,  \* the unmount() task _consume_all scheduled has not run
    q_pc,            \* where the downstream caller of next() is
    q_obs            \* the frames next() has returned to the caller

qVars == <<q_data, q_fail, q_pos, queue_size, q_state, q_queue, q_has_queue, q_open,
           consumer_fut, q_loop_pc, q_loop_item, q_unmount_task, q_pc, q_obs>>

VARIABLES
    \* ---- chunk producers (chunks.py), fed by push_frame
    ch_kind,           \* the class: "sized", "slowstart" or "separator"
    min_size,          \* BaseSizedChunksProducer._min_size
    max_size,          \* BaseSizedChunksProducer._max_size
    initial_min_size,  \* BaseChunksSlowStartProducer._initial_min_size
    multiplier,        \* BaseChunksSlowStartProducer._multiplier, in halves
    interval,          \* BaseChunksSlowStartProducer._interval, in ticks
    last_dt,           \* whether BaseChunksSlowStartProducer._last_dt is set
    separator,         \* BaseChunksSeparatorProducer.separator
    ch_state,          \* the producer's _state
    buffer,            \* BaseDataChunkProducer._buffer (<<>> when None)
    open_buffer,       \* BaseDataChunkProducer._open_buffer
    ch_pc,             \* where the caller of next() is
    ch_frames,         \* the data frames pushed so far, in order
    ch_closed,         \* whether the end-of-stream sentinel was pushed
    ch_chunks,         \* the chunks next() has returned, in order
    ch_req,            \* the last chunk request: its kind and _min_size
                       \* before and after it
    ch_error,          \* whether push_frame was given an exception other
                       \* than end-of-stream
    first_sep          \* BaseChunksFirstSeparatorProducer._first_sep

chVars == <<ch_kind, min_size, max_size, initial_min_size, multiplier,
            interval, last_dt, separator, ch_state, buffer, open_buffer,
            ch_pc, ch_frames, ch_closed, ch_chunks, ch_req, ch_error, first_sep>>

VARIABLES
    \* ---- a linear pipeline (base.py): a SyncSource, element 0, followed by
    \* ---- Map stages 1..pl_n, each the source of the next
    pl_n,              \* the number of stages: the last element is pl_n
    pl_kind,           \* SyncSource.source: a "list", a "generator", or a
                       \* "failing" generator that raises after its data
    pl_data,           \* the frames SyncSource.source yields
    pl_has_source,     \* per element: whether its `source` is set
    pl_bad,            \* per stage: the frames its map_func raises on
    pl_skip_errors,    \* per stage: BaseMap._skip_errors
    pl_state,          \* per element: BaseElement._state
    pl_last_error,     \* per element: BaseElement._last_error
    pl_pos,            \* how many items SyncSource._iter has yielded
    pl_failed,         \* whether the failing generator has raised
    pl_emitted,        \* the messages sent on the bus by the last call
    pl_last,           \* the last call of the application: what, on which
                       \* element, what it raised, the states before it
    pl_out,            \* the outcomes of the next() calls, in order
    pl_pulled          \* the frames SyncSource._next_frame returned, in order

plConfig == <<pl_n, pl_kind, pl_data, pl_has_source, pl_bad, pl_skip_errors>>
plVars == <<plConfig, pl_state, pl_last_error, pl_pos, pl_failed, pl_emitted,
            pl_last, pl_out, pl_pulled>>

VARIABLES
    \* ---- a Last sink (sinks.py) whose source is the last element of the
    \* ---- pipeline
    sk_state,          \* the sink's _state
    sk_last_error,     \* the sink's _last_error
    sk_frame_fut,      \* BaseOneFrameSink._frame_fut
    sk_previous_frame, \* Last._previous_frame: <<>> for EMPTY, else <<frame>>
    sk_loop,           \* BaseIndependentConsumer._consumer_fut: the task
                       \* of _consume_all
    sk_unmount_task,   \* whether the unmount() that the task schedules when
                       \* it ends is still to run
    sk_pc,             \* where the caller of get_frame() is
    sk_obs             \* what the get_frame() calls ended with, and the
                       \* state of the sink at that moment

skVars == <<sk_state, sk_last_error, sk_frame_fut, sk_previous_frame, sk_loop,
            sk_unmount_task, sk_pc, sk_obs>>

VARIABLES
    \* ---- elements being composed with >> and << (base.py)
    co_source,         \* per consumer: BaseConsumer._source ("None" if unset)
    co_state,          \* per element: BaseElement._state
    co_last            \* the last operator applied: the operator, its
                       \* operands, what it returned or raised, whether b
                       \* was READY and what its source was before it,
                       \* and the consumers whose source it changed

coVars == <<co_source, co_state, co_last>>

VARIABLES
    \* ---- Bus (base.py) and its bridges (bus.py) on the event loop
    bs_filter,         \* per bus: msg_types of the filter of its one handler
                       \* ({}: every type)
    bs_bridges,        \* the bridges built by pipe, in the order they were
                       \* built: BusMessageSource >> BusMessageSink
    bs_ready,          \* the callbacks the event loop will run, in order
    bs_got,            \* per bus: the messages its handler was called with
    bs_sent,           \* the messages the application sent, in order, each
                       \* with what had been called on its bus before
    bs_calls           \* what has been called so far: A.pipe(B), A.unpipe(B)
                       \* after it, B.end_of_bus() after it, and how many
                       \* end_of_bus() in all

bsVars == <<bs_filter, bs_bridges, bs_ready, bs_got, bs_sent, bs_calls>>

VARIABLES
    \* ---- Aggregator / CombineStreams (primitives.py) over its sources
    ag_len,            \* per source: how many frames its generator yields
    ag_fail,           \* per source: whether the generator raises after them
    ag_pos,            \* per source: how many pulls its generator has served
    ag_src_state,      \* per source: its _state
    ag_state,          \* the _state of the combinator
    ag_last_error,     \* the _last_error of the combinator
    ag_pull,           \* per source: the task of its __anext__() that wait()
                       \* holds: "none", "pending", or how it completed
    ag_pc,             \* where the caller of next() is
    ag_calls           \* how many next() calls were made

agVars == <<ag_len, ag_fail, ag_pos, ag_src_state, ag_state, ag_last_error,
            ag_pull, ag_pc, ag_calls>>

VARIABLES
    \* ---- the tasks that call mount(), unmount() and _set_error() of one
    \* ---- element (base.py)
    lk_mount_raises,   \* whether the element's _mount raises
    lk_unmount_raises, \* whether the element's _unmount raises
    lk_state,          \* BaseElement._state
    lk_holder,         \* the task that holds _state_lock, 0 if none
    lk_waiters,        \* the tasks waiting for _state_lock, first come first
    lk_pc,             \* per task: "idle", "wait" for the lock, or "inside"
                       \* a guarded section, suspended in _mount or _unmount
    lk_sec,            \* per task: the guarded section it waits for or is in
    lk_calls,          \* the calls made: which, and the state at the time
    lk_setups,         \* how many times _mount was run
    lk_teardowns       \* how many times _unmount was run

lkVars == <<lk_mount_raises, lk_unmount_raises, lk_state, lk_holder, lk_waiters,
            lk_pc, lk_sec, lk_calls, lk_setups, lk_teardowns>>

VARIABLES
    \* ---- the tasks that call next() of one Producer, and the application
    \* ---- task that unmounts it (base.py, BaseProducer)
    rd_state,          \* BaseElement._state of the producer
    active_tasks,      \* BaseProducer._active_tasks
    rd_pc,             \* per reader task: "idle", "suspended" in _next_frame,
                       \* "cancelling" (suspended, cancel() was called on
                       \* it), "cancelled" (ended with CancelledError)
    rd_reads,          \* how many next() calls were made
    rd_last            \* the last teardown of the READY producer: the task
                       \* that ran it, the tasks suspended in next() at that
                       \* moment, the tasks it called cancel() on

rdVars == <<rd_state, active_tasks, rd_pc, rd_reads, rd_last>>

\* the components added after the Last sink
moreVars == <<bsVars, agVars, lkVars, rdVars>>

\* the elements of base.py and their users
elVars == <<plVars, skVars, coVars, moreVars>>

vars == <<teeVars, brVars, caVars, qVars, chVars, elVars>>

\* ------------------------------------------------------------- helpers
\* all sequences over S of length at most n
RECURSIVE SeqsUpTo(_, _)
SeqsUpTo(S, n) ==
    IF n = 0 THEN {<<>>}
    ELSE LET shorter == SeqsUpTo(S, n - 1)
         IN shorter \cup {Append(s, x) : s \in {t \in shorter : Len(t) = n - 1}, x \in S}

IsPrefix(s, t) == Len(s) <= Len(t) /\ SubSeq(t, 1, Len(s)) = s

\* asyncio.Future: pending, or done with a result, an exception or cancelled
NewFuture == [st |-> "pending", val |-> 0]
FutResult(v) == [st |-> "result", val |-> v]
FutEndOfStream == [st |-> "eos", val |-> 0]

\* Future.set_result / set_exception on a future that is still pending
\* (on a done future they raise InvalidStateError and change nothing)
SetAll(heap, ids, outcome) ==
    [i \in DOMAIN heap |->
        IF i \in ids /\ heap[i].st = "pending" THEN outcome ELSE heap[i]]

\* ================================================================== Tee
TeeOutputs == 1..NOutputs

\* the Tee after construction, over an upstream that yields one of datas
TeeInitOver(datas) ==
    /\ tee_data \in datas
    /\ tee_pos = 0
    /\ tee_state = "NULL"
    /\ tee_src_state = "NULL"
    /\ tee_consumers = TeeOutputs          \* add_consumer for each output
    /\ tee_futs = [p \in TeeOutputs |-> 0]
    /\ tee_heap = <<>>
    /\ tee_pc = [p \in TeeOutputs |-> "idle"]
    /\ tee_fut = [p \in TeeOutputs |-> 0]
    /\ tee_obs = [p \in TeeOutputs |-> <<>>]

TeeInit == TeeInitOver(SeqsUpTo(FrameVals, MaxFrames))
\* the Tee left unused while another component is examined
TeeIdle == TeeInitOver({<<>>})

TeeFutKeys(futs) == {p \in TeeOutputs : futs[p] # 0}

\* the gate of Tee.request_frame: every attached output has an entry in _futs
TeeGateAny(futs, consumers) == TeeFutKeys(futs) # {}
TeeGate(futs, consumers) ==
    Cardinality(TeeFutKeys(futs) \cap consumers) = Cardinality(consumers)

\* Tee.request_frame up to its first suspension: mount, look the future up
\* or create it, then either start the upstream pull or wait for the future
TeeRequestFrame(p) ==
    /\ tee_pc[p] = "idle"
    /\ tee_state' = "READY"
    /\ tee_src_state' = IF tee_state = "NULL" THEN "READY" ELSE tee_src_state
    /\ IF p \notin tee_consumers
       THEN /\ tee_pc' = [tee_pc EXCEPT ![p] = "done"]
            /\ UNCHANGED <<tee_futs, tee_heap, tee_fut>>
       ELSE LET fresh == tee_futs[p] = 0
                id == IF fresh THEN Len(tee_heap) + 1 ELSE tee_futs[p]
                futs2 == [tee_futs EXCEPT ![p] = id]
            IN /\ tee_heap' = IF fresh THEN Append(tee_heap, NewFuture) ELSE tee_heap
               /\ tee_futs' = futs2
               /\ tee_fut' = [tee_fut EXCEPT ![p] = id]
               /\ tee_pc' = [tee_pc EXCEPT ![p] =
                      IF TeeGate(futs2, tee_consumers) THEN "pulling" ELSE "wait_fut"]
    /\ UNCHANGED <<tee_data, tee_pos, tee_consumers, tee_obs, brVars, caVars, qVars, chVars, elVars>>

\* what `return await fut` does with the future f the task p holds: a
\* result is returned to the caller of next(), end-of-stream ends the
\* output, a pending future suspends the task
AwaitFut(p, f, pc, obs) ==
    CASE f.st = "result" -> <<[pc EXCEPT ![p] = "idle"], [obs EXCEPT ![p] = Append(@, f.val)]>>
      [] f.st = "eos"    -> <<[pc EXCEPT ![p] = "done"], obs>>
      [] OTHER           -> <<[pc EXCEPT ![p] = "wait_fut"], obs>>

\* Tee.consume_frame when the upstream pull returns: a frame resolves every
\* future of _futs and empties it; end-of-stream removes every inner producer
TeeConsumeFrame(p) ==
    /\ tee_pc[p] = "pulling"
    /\ IF tee_pos < Len(tee_data)
       THEN LET frame == tee_data[tee_pos + 1]
                heap2 == SetAll(tee_heap, {tee_futs[c] : c \in TeeFutKeys(tee_futs)}, FutResult(frame))
                r == AwaitFut(p, heap2[tee_fut[p]], tee_pc, tee_obs)
            IN /\ tee_pos' = tee_pos + 1
               /\ tee_heap' = heap2
               /\ tee_futs' = [c \in TeeOutputs |-> 0]
               /\ tee_pc' = r[1]
               /\ tee_obs' = r[2]
               /\ UNCHANGED <<tee_consumers, tee_src_state>>
       ELSE /\ tee_src_state' = "NULL"
            /\ tee_consumers' = {}
            /\ tee_heap' = SetAll(tee_heap, {tee_futs[c] : c \in TeeFutKeys(tee_futs) \cap tee_consumers},
                                  FutEndOfStream)
            /\ tee_futs' = [c \in TeeOutputs |-> IF c \in tee_consumers THEN 0 ELSE tee_futs[c]]
            /\ tee_pc' = [tee_pc EXCEPT ![p] = "done"]
            /\ UNCHANGED <<tee_pos, tee_obs>>
    /\ UNCHANGED <<tee_data, tee_state, tee_fut, brVars, caVars, qVars, chVars, elVars>>

\* a task suspended in `await fut` resumes once the future is done
TeeWake(p) ==
    /\ tee_pc[p] = "wait_fut"
    /\ tee_heap[tee_fut[p]].st # "pending"
    /\ LET r == AwaitFut(p, tee_heap[tee_fut[p]], tee_pc, tee_obs)
       IN tee_pc' = r[1] /\ tee_obs' = r[2]
    /\ UNCHANGED <<tee_data, tee_pos, tee_state, tee_src_state, tee_consumers,
                   tee_futs, tee_heap, tee_fut, brVars, caVars, qVars, chVars, elVars>>

TeeNext ==
    \/ \E p \in TeeOutputs : TeeRequestFrame(p)
    \/ \E p \in TeeOutputs : TeeConsumeFrame(p)
    \/ \E p \in TeeOutputs : TeeWake(p)

\* Future.set_exception(StopAsyncIteration()) on the future id of the heap
FailFutureNot(heap, id) == heap
FailFuture(heap, id) == SetAll(heap, {id}, FutEndOfStream)

\* Tee.remove_consumer(c) for an attached output: the inner producer leaves
\* _consumers; its entry in _futs, when the future is still pending, is
\* failed with end-of-stream and deleted (a done future raises
\* InvalidStateError before the del)
TeeRemoveConsumer(c) ==
    /\ c \in tee_consumers
    /\ tee_consumers' = tee_consumers \ {c}
    /\ IF tee_futs[c] # 0 /\ tee_heap[tee_futs[c]].st = "pending"
       THEN /\ tee_heap' = FailFuture(tee_heap, tee_futs[c])
            /\ tee_futs' = [tee_futs EXCEPT ![c] = 0]
       ELSE UNCHANGED <<tee_heap, tee_futs>>
    /\ UNCHANGED <<tee_data, tee_pos, tee_state, tee_src_state, tee_pc, tee_fut, tee_obs,
                   brVars, caVars, qVars, chVars, elVars>>

\* the consumer of an output that ended calls next() again
TeeAgain(p) ==
    /\ tee_pc[p] = "done"
    /\ tee_pc' = [tee_pc EXCEPT ![p] = "idle"]
    /\ UNCHANGED <<tee_data, tee_pos, tee_state, tee_src_state, tee_consumers,
                   tee_futs, tee_heap, tee_fut, tee_obs, brVars, caVars, qVars, chVars, elVars>>

\* Tee.consume_frame when the upstream pull raises an exception other than
\* end-of-stream: only `except StopAsyncIteration` is there, so the exception
\* leaves consume_frame and request_frame in the task that pulled, and _futs
\* is left as it is.  exhausted: the upstream ends after raising (a
\* generator), or it goes on with its next frame.
TeeConsumeError(p, exhausted) ==
    /\ tee_pc[p] = "pulling"
    /\ tee_pc' = [tee_pc EXCEPT ![p] = "raised"]
    /\ tee_pos' = IF exhausted THEN Len(tee_data) ELSE tee_pos
    /\ UNCHANGED <<tee_data, tee_state, tee_src_state, tee_consumers, tee_futs, tee_heap,
                   tee_fut, tee_obs, brVars, caVars, qVars, chVars, elVars>>

\* the consumer of an output whose next() raised calls next() again
TeeRetry(p) ==
    /\ tee_pc[p] = "raised"
    /\ tee_pc' = [tee_pc EXCEPT ![p] = "idle"]
    /\ UNCHANGED <<tee_data, tee_pos, tee_state, tee_src_state, tee_consumers,
                   tee_futs, tee_heap, tee_fut, tee_obs, brVars, caVars, qVars, chVars, elVars>>

TeeFatalNext ==
    \/ TeeNext
    \/ \E p \in TeeOutputs, exhausted \in BOOLEAN : TeeConsumeError(p, exhausted)
    \/ \E p \in TeeOutputs : TeeRetry(p)

TeeRemovalNext ==
    \/ TeeNext
    \/ \E c \in TeeOutputs : TeeRemoveConsumer(c)
    \/ \E p \in TeeOutputs : TeeAgain(p)


\* =============================================================== Branch
\* number of keys the classifier can return
NKeys == 2
BranchKeys == 0..(NKeys - 1)
BranchFrameVals == 1..(NKeys + 1)

\* the classifier of the tests: lambda frame: frame % 3
branch_func(frame) == frame % NKeys

\* the Branch after construction and add_branch for one of the key sets
BranchInitOver(datas, keySets, callbacks) ==
    /\ br_data \in datas
    /\ br_callback \in callbacks
    /\ br_pos = 0
    /\ br_state = "NULL"
    /\ br_src_state = "NULL"
    /\ br_branches \in keySets
    /\ br_added = br_branches
    /\ br_futs = [k \in BranchKeys |-> 0]
    /\ br_heap = <<>>
    /\ br_pc = [k \in BranchKeys |-> "idle"]
    /\ br_fut = [k \in BranchKeys |-> 0]
    /\ br_obs = [k \in BranchKeys |-> <<>>]

BranchInit == BranchInitOver(SeqsUpTo(BranchFrameVals, MaxFrames), (SUBSET BranchKeys) \ {{}},
                             {"none"})
BranchIdle == BranchInitOver({<<>>}, {BranchKeys}, {"none"})

\* Branch._unknown_branch: False without a callback and when the callback
\* raises
UnknownBranchHandled(callback) == callback = "raises"
UnknownBranch(callback) == FALSE

BranchFutKeys(futs) == {k \in BranchKeys : futs[k] # 0}

\* the gate of Branch.request_frame: every registered key has an entry in _futs
BranchGateAny(futs, branches) == BranchFutKeys(futs) # {}
BranchGate(futs, branches) ==
    Cardinality(branches \cap BranchFutKeys(futs)) = Cardinality(branches)

\* Branch.request_frame up to its first suspension
BranchRequestFrame(k) ==
    /\ br_pc[k] = "idle"
    /\ br_state' = "READY"
    /\ br_src_state' = IF br_state = "NULL" THEN "READY" ELSE br_src_state
    /\ IF k \notin br_branches
       THEN /\ br_pc' = [br_pc EXCEPT ![k] = "done"]
            /\ UNCHANGED <<br_futs, br_heap, br_fut>>
       ELSE LET fresh == br_futs[k] = 0 \/ br_heap[br_futs[k]].st # "pending"
                id == IF fresh THEN Len(br_heap) + 1 ELSE br_futs[k]
                futs2 == [br_futs EXCEPT ![k] = id]
            IN /\ br_heap' = IF fresh THEN Append(br_heap, NewFuture) ELSE br_heap
               /\ br_futs' = futs2
               /\ br_fut' = [br_fut EXCEPT ![k] = id]
               /\ br_pc' = [br_pc EXCEPT ![k] =
                      IF BranchGate(futs2, br_branches) THEN "pulling" ELSE "wait_fut"]
    /\ UNCHANGED <<br_data, br_pos, br_branches, br_added, br_callback, br_obs,
                   teeVars, caVars, qVars, chVars, elVars>>

\* one turn of the loop of Branch.consume_frame, when the upstream pull
\* returns.  A frame whose key has a future resolves it and ends the loop; a
\* frame whose key has none goes to _unknown_branch: when that returns False
\* the frame is dropped and the upstream is pulled again, when it returns
\* True consume_frame returns and the caller awaits its future.
\* End-of-stream removes every branch.
BranchConsumeFrame(k) ==
    /\ br_pc[k] = "pulling"
    /\ IF br_pos < Len(br_data)
       THEN LET frame == br_data[br_pos + 1]
                branch == branch_func(frame)
            IN /\ br_pos' = br_pos + 1
               /\ IF br_futs[branch] # 0
                  THEN LET heap2 == SetAll(br_heap, {br_futs[branch]}, FutResult(frame))
                           r == AwaitFut(k, heap2[br_fut[k]], br_pc, br_obs)
                       IN /\ br_heap' = heap2
                          /\ br_futs' = [br_futs EXCEPT ![branch] = 0]
                          /\ br_pc' = r[1]
                          /\ br_obs' = r[2]
                  ELSE /\ br_pc' = IF UnknownBranch(br_callback)
                                   THEN [br_pc EXCEPT ![k] = "wait_fut"] ELSE br_pc
                       /\ UNCHANGED <<br_heap, br_futs, br_obs>>
               /\ UNCHANGED <<br_branches, br_src_state>>
       ELSE /\ br_src_state' = "NULL"
            /\ br_branches' = {}
            /\ br_heap' = SetAll(br_heap, {br_futs[c] : c \in BranchFutKeys(br_futs) \cap br_branches},
                                 FutEndOfStream)
            /\ br_futs' = [c \in BranchKeys |-> IF c \in br_branches THEN 0 ELSE br_futs[c]]
            /\ br_pc' = [br_pc EXCEPT ![k] = "done"]
            /\ UNCHANGED <<br_pos, br_obs>>
    /\ UNCHANGED <<br_data, br_state, br_added, br_callback, br_fut,
                   teeVars, caVars, qVars, chVars, elVars>>

\* a task suspended in `await fut` resumes once the future is done
BranchWake(k) ==
    /\ br_pc[k] = "wait_fut"
    /\ br_heap[br_fut[k]].st # "pending"
    /\ LET r == AwaitFut(k, br_heap[br_fut[k]], br_pc, br_obs)
       IN br_pc' = r[1] /\ br_obs' = r[2]
    /\ UNCHANGED <<br_data, br_pos, br_state, br_src_state, br_branches, br_added,
                   br_callback, br_futs, br_heap, br_fut, teeVars, caVars, qVars, chVars, elVars>>

BranchNext ==
    \/ \E k \in BranchKeys : BranchRequestFrame(k)
    \/ \E k \in BranchKeys : BranchConsumeFrame(k)
    \/ \E k \in BranchKeys : BranchWake(k)

\* Branch.remove_branch(key) for a registered key
BranchRemoveBranch(k) ==
    /\ k \in br_branches
    /\ br_branches' = br_branches \ {k}
    /\ IF br_futs[k] # 0 /\ br_heap[br_futs[k]].st = "pending"
       THEN /\ br_heap' = FailFuture(br_heap, br_futs[k])
            /\ br_futs' = [br_futs EXCEPT ![k] = 0]
       ELSE UNCHANGED <<br_heap, br_futs>>
    /\ UNCHANGED <<br_data, br_pos, br_state, br_src_state, br_added, br_callback,
                   br_pc, br_fut, br_obs, teeVars, caVars, qVars, chVars, elVars>>

\* the consumer of a branch that ended calls next() again
BranchAgain(k) ==
    /\ br_pc[k] = "done"
    /\ br_pc' = [br_pc EXCEPT ![k] = "idle"]
    /\ UNCHANGED <<br_data, br_pos, br_state, br_src_state, br_branches, br_added,
                   br_callback, br_futs, br_heap, br_fut, br_obs,
                   teeVars, caVars, qVars, chVars, elVars>>

BranchRemovalNext ==
    \/ BranchNext
    \/ \E k \in BranchKeys : BranchRemoveBranch(k)
    \/ \E k \in BranchKeys : BranchAgain(k)


\* ================================================================ Cache
\* number of replays (iterations over the Cache)
NReplays == 2
Replays == 1..NReplays

\* what the ledger holds and a replay sees: a frame, or the exception the
\* upstream pull ended with
Frame(v) == [kind |-> "frame", val |-> v]
EndOfStream == [kind |-> "eos", val |-> 0]
FatalError == [kind |-> "error", val |-> 0]

CacheInitOver(datas, fails, kinds) ==
    /\ ca_data \in datas
    /\ ca_fail \in fails
    /\ ca_restarts \in kinds
    /\ ca_iter = 0
    /\ ca_handed = 0
    /\ ca_pulls = 0
    /\ ca_state = "NULL"
    /\ ca_src_state = "NULL"
    /\ cached_data = <<>>
    /\ next_fut = 0
    /\ ca_heap = <<>>
    /\ cb_state = [r \in Replays |-> "NULL"]
    /\ cb_idx = [r \in Replays |-> 0]
    /\ cb_pc = [r \in Replays |-> "idle"]
    /\ cb_fut = [r \in Replays |-> 0]
    /\ cb_obs = [r \in Replays |-> <<>>]

CacheInit == CacheInitOver(SeqsUpTo(FrameVals, MaxFrames), BOOLEAN, BOOLEAN)
CacheIdle == CacheInitOver({<<>>}, {FALSE}, {FALSE})

\* The state of the Cache and its upstream as one record, so that the steps
\* a task runs without suspending can be composed.
CacheNow ==
    [state |-> ca_state, src_state |-> ca_src_state, iter |-> ca_iter,
     handed |-> ca_handed, pulls |-> ca_pulls, cached |-> cached_data,
     next_fut |-> next_fut, heap |-> ca_heap]

\* Cache.mount(): BaseElement.mount, Cache._mount, BaseConsumer._mount, which
\* mounts the upstream source; SyncSource._mount takes a new iterator
CacheMountReset(c) ==
    IF c.state # "NULL" THEN c
    ELSE [c EXCEPT !.state = "READY",
                   !.src_state = "READY",
                   !.cached = <<>>,
                   !.iter = IF c.src_state = "NULL" /\ ca_restarts THEN 0 ELSE @]
CacheMount(c) ==
    IF c.state # "NULL" THEN c
    ELSE [c EXCEPT !.state = "READY",
                   !.src_state = "READY",
                   !.iter = IF c.src_state = "NULL" /\ ca_restarts THEN 0 ELSE @]

\* Cache.unmount(): BaseConsumer._unmount unmounts the upstream source
CacheUnmount(c) ==
    IF c.state # "READY" THEN c
    ELSE [c EXCEPT !.state = "NULL", !.src_state = "NULL"]

\* the upstream's next(): the next frame, the fatal error after the last
\* frame, or end-of-stream (on which the source unmounts itself)
CacheUpstreamItem(c) ==
    IF c.iter < Len(ca_data) THEN Frame(ca_data[c.iter + 1])
    ELSE IF ca_fail /\ c.iter = Len(ca_data) THEN FatalError
    ELSE EndOfStream

\* Cache.__anext__ once the upstream pull has returned: Cache._next_frame /
\* process_frame append the outcome to the ledger, end-of-stream unmounts
CacheNextFrameDropsError(c) ==
    LET item == CacheUpstreamItem(c)
        c1 == [c EXCEPT !.cached = IF item = FatalError THEN @ ELSE Append(@, item),
                        !.iter = IF item = EndOfStream THEN @ ELSE @ + 1,
                        !.handed = IF item.kind = "frame" THEN @ + 1 ELSE @,
                        !.src_state = IF item = EndOfStream THEN "NULL" ELSE @]
    IN IF item = EndOfStream THEN CacheUnmount(c1) ELSE c1
CacheNextFrame(c) ==
    LET item == CacheUpstreamItem(c)
        c1 == [c EXCEPT !.cached = Append(@, item),
                        !.iter = IF item = EndOfStream THEN @ ELSE @ + 1,
                        !.handed = IF item.kind = "frame" THEN @ + 1 ELSE @,
                        !.src_state = IF item = EndOfStream THEN "NULL" ELSE @]
    IN IF item = EndOfStream THEN CacheUnmount(c1) ELSE c1

\* get_cached_item: the ledger already ends with end-of-stream
CacheEnded(cached) == Len(cached) > 0 /\ cached[Len(cached)] = EndOfStream

\* get_cached_item: no fetch is in flight
CacheNoFetchAlways(fut) == TRUE
CacheNoFetch(fut) == fut = 0

\* get_cached_item(idx) from the top of its loop to its next suspension or
\* its return.  The result is the new Cache record and what the caller gets:
\* "item" (return or raise the ledger entry), "fetch" (it started the
\* upstream pull) or "wait" (it awaits the fetch in flight).
CacheGetItem(c, idx) ==
    IF idx < Len(c.cached) THEN [c |-> c, what |-> "item", item |-> c.cached[idx + 1]]
    ELSE IF CacheEnded(c.cached) THEN [c |-> c, what |-> "item", item |-> EndOfStream]
    ELSE LET c1 == CacheMount(c)
         IN IF CacheNoFetch(c1.next_fut)
            THEN [c |-> [c1 EXCEPT !.next_fut = Len(c1.heap) + 1,
                                   !.heap = Append(@, "pending"),
                                   !.pulls = @ + 1],
                  what |-> "fetch", item |-> EndOfStream]
            ELSE [c |-> c1, what |-> "wait", item |-> EndOfStream]

\* CacheBridge._consume_frame and CacheBridge.__anext__ around the outcome g
\* of get_cached_item for replay r: a frame advances _idx and is returned,
\* an error advances _idx and is raised, end-of-stream unmounts the bridge,
\* which unmounts its source, the Cache.
CacheDeliver(r, g) ==
    LET c == IF g.what = "item" /\ g.item = EndOfStream THEN CacheUnmount(g.c) ELSE g.c
    IN /\ ca_state' = c.state
       /\ ca_src_state' = c.src_state
       /\ ca_iter' = c.iter
       /\ ca_handed' = c.handed
       /\ ca_pulls' = c.pulls
       /\ cached_data' = c.cached
       /\ next_fut' = c.next_fut
       /\ ca_heap' = c.heap
       /\ CASE g.what = "fetch" ->
                 /\ cb_pc' = [cb_pc EXCEPT ![r] = "fetching"]
                 /\ cb_state' = [cb_state EXCEPT ![r] = "READY"]
                 /\ UNCHANGED <<cb_idx, cb_fut, cb_obs>>
            [] g.what = "wait" ->
                 /\ cb_pc' = [cb_pc EXCEPT ![r] = "wait_fut"]
                 /\ cb_fut' = [cb_fut EXCEPT ![r] = c.next_fut]
                 /\ cb_state' = [cb_state EXCEPT ![r] = "READY"]
                 /\ UNCHANGED <<cb_idx, cb_obs>>
            [] OTHER ->
                 /\ cb_obs' = [cb_obs EXCEPT ![r] = Append(@, g.item)]
                 /\ cb_idx' = [cb_idx EXCEPT ![r] = IF g.item = EndOfStream THEN @ ELSE @ + 1]
                 /\ cb_pc' = [cb_pc EXCEPT ![r] = IF g.item.kind = "frame" THEN "idle" ELSE "done"]
                 /\ cb_state' = [cb_state EXCEPT ![r] = IF g.item = EndOfStream THEN "NULL" ELSE "READY"]
                 /\ UNCHANGED cb_fut

\* next() on the bridge of replay r: the first call mounts the bridge
\* (CacheBridge._mount resets _idx, BaseConsumer._mount mounts the Cache)
CacheReplayNext(r) ==
    /\ cb_pc[r] = "idle"
    /\ LET first == cb_state[r] = "NULL"
           c == IF first THEN CacheMount(CacheNow) ELSE CacheNow
           idx == IF first THEN 0 ELSE cb_idx[r]
       IN CacheDeliver(r, CacheGetItem(c, idx))
    /\ UNCHANGED <<ca_data, ca_fail, ca_restarts, teeVars, brVars, qVars, chVars, elVars>>

\* what a cancelled task or a cancelled future raises, and what
\* Future.set_result raises on a future that is already done
Cancelled == [kind |-> "cancelled", val |-> 0]
CacheInvalidState == [kind |-> "invalid_state", val |-> 0]

\* get_cached_item after `await self.__anext__()`: _next_fut.set_result(None),
\* _next_fut = None, and round the loop again.  On a _next_fut that a waiting
\* task's cancellation has cancelled, set_result raises InvalidStateError,
\* which leaves get_cached_item with _next_fut still set.
CacheResolve(c, idx) ==
    IF c.heap[c.next_fut] = "cancelled"
    THEN [c |-> c, what |-> "item", item |-> CacheInvalidState]
    ELSE CacheGetItem([c EXCEPT !.heap = [@ EXCEPT ![c.next_fut] = "done"], !.next_fut = 0], idx)

\* the upstream pull of the fetching replay returns: the outcome goes to the
\* ledger, _next_fut is resolved and cleared, and the loop of
\* get_cached_item goes round again
CacheFetchDone(r) ==
    /\ cb_pc[r] = "fetching"
    /\ CacheDeliver(r, CacheResolve(CacheNextFrame(CacheNow), cb_idx[r]))
    /\ UNCHANGED <<ca_data, ca_fail, ca_restarts, teeVars, brVars, qVars, chVars, elVars>>

\* a replay waiting for the fetch in flight resumes once _next_fut is
\* resolved, and goes round the loop of get_cached_item again
CacheWake(r) ==
    /\ cb_pc[r] = "wait_fut"
    /\ ca_heap[cb_fut[r]] = "done"
    /\ CacheDeliver(r, CacheGetItem(CacheNow, cb_idx[r]))
    /\ UNCHANGED <<ca_data, ca_fail, ca_restarts, teeVars, brVars, qVars, chVars, elVars>>

CacheNext ==
    \/ \E r \in Replays : CacheReplayNext(r)
    \/ \E r \in Replays : CacheFetchDone(r)
    \/ \E r \in Replays : CacheWake(r)

\* Task.cancel() on the task of replay r.  A task inside the upstream pull
\* gets CancelledError at its next step; a task in `await self._next_fut`
\* has that future cancelled at once and gets CancelledError at its next step.
CacheCancelTask(r) ==
    /\ \/ /\ cb_pc[r] = "fetching"
          /\ cb_pc' = [cb_pc EXCEPT ![r] = "fetch_cancelled"]
          /\ UNCHANGED ca_heap
       \/ /\ cb_pc[r] = "wait_fut"
          /\ ca_heap[cb_fut[r]] = "pending"
          /\ cb_pc' = [cb_pc EXCEPT ![r] = "wait_cancelled"]
          /\ ca_heap' = [ca_heap EXCEPT ![cb_fut[r]] = "cancelled"]
    /\ UNCHANGED <<ca_data, ca_fail, ca_restarts, ca_iter, ca_handed, ca_pulls, ca_state,
                   ca_src_state, cached_data, next_fut, cb_state, cb_idx, cb_fut, cb_obs,
                   teeVars, brVars, qVars, chVars, elVars>>

\* CancelledError reaches the fetching task inside the upstream pull:
\* Cache._next_frame appends it to the ledger and re-raises, get_cached_item
\* swallows it (except BaseException: pass), resolves _next_fut and goes
\* round its loop again.  exhausted: the upstream iterator is finished by
\* the exception thrown into it (a generator), or it is left where it was.
CacheFetchCancelled(r, exhausted) ==
    /\ cb_pc[r] \in {"fetch_cancelled", "fetch_unmounted"}
    /\ LET c1 == [CacheNow EXCEPT !.cached = Append(@, Cancelled),
                                  !.iter = IF exhausted THEN Len(ca_data) + 1 ELSE @]
       IN CacheDeliver(r, CacheResolve(c1, cb_idx[r]))
    /\ UNCHANGED <<ca_data, ca_fail, ca_restarts, teeVars, brVars, qVars, chVars, elVars>>

\* `await self._next_fut` on a cancelled future raises CancelledError, which
\* leaves get_cached_item; CacheBridge._consume_frame advances _idx
CacheWakeCancelled(r) ==
    /\ cb_pc[r] \in {"wait_fut", "wait_cancelled"}
    /\ ca_heap[cb_fut[r]] = "cancelled"
    /\ CacheDeliver(r, [c |-> CacheNow, what |-> "item", item |-> Cancelled])
    /\ UNCHANGED <<ca_data, ca_fail, ca_restarts, teeVars, brVars, qVars, chVars, elVars>>

\* unmount() of the bridge of a replay that is between two reads and reads
\* no more: BaseConsumer._unmount unmounts the bridge's source, the Cache;
\* the Cache unmounts the upstream and BaseProducer._unmount cancels the
\* tasks inside Cache.__anext__
CacheBridgeUnmount(r) ==
    /\ cb_pc[r] = "idle"
    /\ cb_state[r] = "READY"
    /\ cb_state' = [cb_state EXCEPT ![r] = "NULL"]
    /\ LET c == CacheUnmount(CacheNow)
       IN /\ ca_state' = c.state
          /\ ca_src_state' = c.src_state
          /\ cb_pc' = [t \in Replays |->
                 IF t = r THEN "done"
                 ELSE IF ca_state = "READY" /\ cb_pc[t] = "fetching" THEN "fetch_unmounted"
                 ELSE cb_pc[t]]
    /\ UNCHANGED <<ca_data, ca_fail, ca_restarts, ca_iter, ca_handed, ca_pulls, cached_data,
                   next_fut, ca_heap, cb_idx, cb_fut, cb_obs,
                   teeVars, brVars, qVars, chVars, elVars>>

CacheStopNext ==
    \/ CacheNext
    \/ \E r \in Replays : CacheCancelTask(r)
    \/ \E r \in Replays, exhausted \in BOOLEAN : CacheFetchCancelled(r, exhausted)
    \/ \E r \in Replays : CacheWakeCancelled(r)
    \/ \E r \in Replays : CacheBridgeUnmount(r)


\* ================================================================ Queue
\* largest capacity of a bounded Queue
MaxQueueSize == 1

QueueInitOver(datas, sizes, fails) ==
    /\ q_data \in datas
    /\ q_fail \in fails
    /\ queue_size \in sizes
    /\ q_pos = 0
    /\ q_state = "NULL"
    /\ q_queue = <<>>
    /\ q_has_queue = FALSE
    /\ q_open = FALSE
    /\ consumer_fut = "none"
    /\ q_loop_pc = "none"
    /\ q_loop_item = EndOfStream
    /\ q_unmount_task = FALSE
    /\ q_pc = "idle"
    /\ q_obs = <<>>

QueueInit == QueueInitOver(SeqsUpTo(FrameVals, MaxFrames), 0..MaxQueueSize, {FALSE})
QueueIdle == QueueInitOver({<<>>}, {0}, {FALSE})

\* the Queue and its background loop as one record
QueueNow ==
    [state |-> q_state, queue |-> q_queue, has_queue |-> q_has_queue,
     open |-> q_open, consumer_fut |-> consumer_fut, loop_pc |-> q_loop_pc,
     loop_item |-> q_loop_item, unmount_task |-> q_unmount_task, pos |-> q_pos]

QueueSet(c) ==
    /\ q_state' = c.state
    /\ q_queue' = c.queue
    /\ q_has_queue' = c.has_queue
    /\ q_open' = c.open
    /\ consumer_fut' = c.consumer_fut
    /\ q_loop_pc' = c.loop_pc
    /\ q_loop_item' = c.loop_item
    /\ q_unmount_task' = c.unmount_task
    /\ q_pos' = c.pos

\* BaseIndependentConsumer._start_consumer: start _consume_all once
StartConsumer(c) ==
    IF c.consumer_fut # "none" THEN c
    ELSE [c EXCEPT !.consumer_fut = "running", !.loop_pc = "start"]

\* Queue.mount(): BaseQueue._mount makes a new queue and opens it,
\* BaseIndependentConsumerStage._mount starts the consumer
QueueMount(c) ==
    IF c.state # "NULL" THEN c
    ELSE StartConsumer([c EXCEPT !.state = "READY", !.queue = <<>>,
                                 !.has_queue = TRUE, !.open = TRUE])

\* Queue.unmount(): BaseQueue._unmount drops the queue and closes it,
\* BaseIndependentConsumer._unmount calls cancel() on the task of a loop
\* that is not done and does not wait for it: the task ends when the
\* cancellation is delivered to it
QueueUnmount(c) ==
    IF c.state # "READY" THEN c
    ELSE [c EXCEPT !.state = "NULL", !.queue = <<>>, !.has_queue = FALSE,
                   !.open = FALSE,
                   !.loop_pc = IF c.consumer_fut # "running" THEN @
                               ELSE IF @ = "start" THEN "cancel_start" ELSE "cancelling"]

\* asyncio.Queue.full()
QueueFullNever(c) == FALSE
QueueFull(c) == queue_size > 0 /\ Len(c.queue) >= queue_size

\* the loop of _consume_all from the point where it starts the next upstream
\* pull: the pull is where it suspends
QueueLoopPull(c) == [c EXCEPT !.loop_pc = "pulling"]

\* the loop after push_frame(item) has put the item: after a frame it pulls
\* again, after end-of-stream _consume_all ends and schedules unmount()
QueueLoopAfterPut(c, item) ==
    IF item = EndOfStream
    THEN [c EXCEPT !.loop_pc = "ended", !.consumer_fut = "done", !.unmount_task = TRUE]
    ELSE QueueLoopPull(c)

\* BaseQueue.push_frame(item): end-of-stream closes the queue, then the item
\* is put; put suspends while the queue is full
QueuePushFrame(c, item) ==
    LET c1 == [c EXCEPT !.open = IF item = EndOfStream THEN FALSE ELSE @]
    IN IF QueueFull(c1)
       THEN [c1 EXCEPT !.loop_pc = "putting", !.loop_item = item]
       ELSE QueueLoopAfterPut([c1 EXCEPT !.queue = Append(@, item)], item)

\* start_consumer() called by the application before it iterates (preload)
QueueStartConsumer ==
    /\ consumer_fut = "none"
    /\ QueueSet(StartConsumer(QueueNow))
    /\ UNCHANGED <<q_data, q_fail, queue_size, q_pc, q_obs, teeVars, brVars, caVars, chVars, elVars>>

\* _consume_all starts: it mounts the element and enters its loop
QueueLoopStart ==
    /\ q_loop_pc = "start"
    /\ QueueSet(QueueLoopPull(QueueMount(QueueNow)))
    /\ UNCHANGED <<q_data, q_fail, queue_size, q_pc, q_obs, teeVars, brVars, caVars, chVars, elVars>>

\* what the upstream gives to its pos-th pull
QueueUpstreamItem(pos) ==
    IF pos < Len(q_data) THEN Frame(q_data[pos + 1])
    ELSE IF q_fail /\ pos = Len(q_data) THEN FatalError
    ELSE EndOfStream

\* the upstream pull of the loop returns (BaseIndependentConsumerStage
\* ._consume_frame): the frame, the exception or the end-of-stream goes to
\* push_frame; after an exception the loop pulls again
QueueLoopPullDone ==
    /\ q_loop_pc = "pulling"
    /\ LET item == QueueUpstreamItem(q_pos)
           c == [QueueNow EXCEPT !.pos = IF item = EndOfStream THEN @ ELSE @ + 1]
       IN QueueSet(QueuePushFrame(c, item))
    /\ UNCHANGED <<q_data, q_fail, queue_size, q_pc, q_obs, teeVars, brVars, caVars, chVars, elVars>>

\* the put the loop is suspended in completes once the queue has room
QueueLoopPutDone ==
    /\ q_loop_pc = "putting"
    /\ ~ QueueFull(QueueNow)
    /\ QueueSet(QueueLoopAfterPut([QueueNow EXCEPT !.queue = Append(@, q_loop_item)], q_loop_item))
    /\ UNCHANGED <<q_data, q_fail, queue_size, q_pc, q_obs, teeVars, brVars, caVars, chVars, elVars>>

\* the unmount() task scheduled by the finally clause of _consume_all runs.
\* The event loop runs callbacks in the order they were scheduled, so a
\* caller that a put has already woken runs before this task.
QueueUnmountTask ==
    /\ q_unmount_task
    /\ ~ (q_pc = "getting" /\ q_queue # <<>>)
    /\ QueueSet([QueueUnmount(QueueNow) EXCEPT !.unmount_task = FALSE])
    /\ q_pc' = IF q_state = "READY" /\ q_pc = "getting" THEN "cancelled" ELSE q_pc
    /\ UNCHANGED <<q_data, q_fail, queue_size, q_obs, teeVars, brVars, caVars, chVars, elVars>>

\* BaseQueue._next_frame and BaseProducer.__anext__ around it once the queue
\* has an item: a frame is returned, end-of-stream unmounts the element, an
\* exception is raised to the caller
QueueGet(c) ==
    LET item == Head(c.queue)
        c1 == [c EXCEPT !.queue = Tail(@)]
    IN /\ QueueSet(IF item = EndOfStream THEN QueueUnmount(c1) ELSE c1)
       /\ q_pc' = CASE item = EndOfStream -> "done"
                    [] item = FatalError -> "raised"
                    [] OTHER -> "idle"
       /\ q_obs' = IF item.kind = "frame" THEN Append(q_obs, item.val) ELSE q_obs

\* next() of the downstream caller: mount on demand, start the consumer if
\* it never was, then get from the queue, which suspends while it is empty
QueueAnext ==
    /\ q_pc = "idle"
    /\ LET c == StartConsumer(QueueMount(QueueNow))
       IN IF c.queue # <<>>
          THEN QueueGet(c)
          ELSE QueueSet(c) /\ q_pc' = "getting" /\ UNCHANGED q_obs
    /\ UNCHANGED <<q_data, q_fail, queue_size, teeVars, brVars, caVars, chVars, elVars>>

\* the caller suspended in get resumes once the queue has an item
QueueGetDone ==
    /\ q_pc = "getting"
    /\ q_queue # <<>>
    /\ QueueGet(QueueNow)
    /\ UNCHANGED <<q_data, q_fail, queue_size, teeVars, brVars, caVars, chVars, elVars>>

\* the application calls unmount() of the Queue while its loop runs; a
\* caller suspended in next() is cancelled by BaseProducer._unmount
QueueUnmountCall ==
    /\ q_state = "READY"
    /\ consumer_fut = "running"
    /\ QueueSet(QueueUnmount(QueueNow))
    /\ q_pc' = IF q_pc = "getting" THEN "cancelled" ELSE q_pc
    /\ UNCHANGED <<q_data, q_fail, queue_size, q_obs, teeVars, brVars, caVars, chVars, elVars>>

\* the cancellation reaches the task of the loop: CancelledError is raised
\* where it was suspended and leaves _consume_all, whose finally clause
\* schedules unmount(); a task cancelled before its first step never runs
QueueLoopCancelled ==
    /\ q_loop_pc \in {"cancel_start", "cancelling"}
    /\ QueueSet([QueueNow EXCEPT !.loop_pc = "ended", !.consumer_fut = "cancelled",
                                 !.unmount_task = @ \/ q_loop_pc = "cancelling"])
    /\ UNCHANGED <<q_data, q_fail, queue_size, q_pc, q_obs, teeVars, brVars, caVars, chVars, elVars>>

QueueNext ==
    \/ QueueStartConsumer
    \/ QueueLoopStart
    \/ QueueLoopPullDone
    \/ QueueLoopPutDone
    \/ QueueUnmountTask
    \/ QueueAnext
    \/ QueueGetDone

QueueTeardownNext ==
    \/ QueueNext
    \/ QueueUnmountCall
    \/ QueueLoopCancelled


\* ====================================================== chunk producers
\* the bytes of the data, the longest pushed frame, the most data pushed
Bytes == 1..2
MaxFrameLen == 2
MaxPushed == 4
\* the most data frames pushed
MaxPushes == 3
\* the largest min_size and max_size arguments
MaxMinSize == 2
MaxMaxSize == 3

Max(a, b) == IF a >= b THEN a ELSE b
Min(a, b) == IF a <= b THEN a ELSE b

RECURSIVE Concat(_)
Concat(chunks) == IF chunks = <<>> THEN <<>> ELSE Head(chunks) \o Concat(Tail(chunks))

\* the concatenation of the frames pushed so far
ch_pushed == Concat(ch_frames)

\* the constructors: min_size is at least 1, max_size at least min_size, the
\* multiplier at least 1.0 (two halves)
ChunkInitOver(kinds, mins, maxs, mults, intervals, seps) ==
    /\ ch_kind \in kinds
    /\ \E mn \in mins, mx \in maxs :
          /\ min_size = Max(mn, 1)
          /\ max_size = Max(Max(mn, 1), mx)
          /\ initial_min_size = Max(mn, 1)
    /\ \E m \in mults : multiplier = Max(m, 2)
    /\ interval \in intervals
    /\ separator \in seps
    /\ last_dt = FALSE
    /\ ch_state = "NULL"
    /\ buffer = <<>>
    /\ open_buffer = FALSE
    /\ ch_pc = "idle"
    /\ ch_frames = <<>>
    /\ ch_closed = FALSE
    /\ ch_chunks = <<>>
    /\ ch_req = [kind |-> "none", before |-> 0, after |-> 0, nth |-> 0]
    /\ ch_error = FALSE
    /\ first_sep = FALSE

ChunkIdle == ChunkInitOver({"sized"}, {1}, {1}, {2}, {1}, {<<1>>})

\* `separator in buffer`
Contains(sep, buf) ==
    \E i \in 1..(Len(buf) - Len(sep) + 1) : SubSeq(buf, i, i + Len(sep) - 1) = sep

\* buffer.split(separator, 1) when the separator occurs: the data before
\* its first occurrence and the data after it
SplitOnce(sep, buf) ==
    LET at == CHOOSE i \in 1..(Len(buf) - Len(sep) + 1) :
                 /\ SubSeq(buf, i, i + Len(sep) - 1) = sep
                 /\ \A j \in 1..(i - 1) : SubSeq(buf, j, j + Len(sep) - 1) # sep
    IN <<SubSeq(buf, 1, at - 1), SubSeq(buf, at + Len(sep), Len(buf))>>

\* the condition under which _notify wakes a waiter of the condition:
\* BaseDataChunkProducer._notify, narrowed by the subclass
ChunkNotifies(buf, open) ==
    /\ Len(buf) > 0 \/ ~ open
    /\ CASE ch_kind = "separator" -> ~ open \/ Contains(separator, buf)
         [] ch_kind = "firstseparator" -> ~ first_sep \/ ~ open \/ Contains(separator, buf)
         [] OTHER                 -> Len(buf) >= min_size \/ ~ open

\* BaseSizedChunksProducer._next_chunk: the data it returns
SizedTake(buf, maxSize) == SubSeq(buf, 1, Min(Len(buf), maxSize))

\* BaseSizedChunksProducer._next_chunk: it raises FrameSkippedError
SizedSkipsEmpty(buf, open, minSize) == Len(buf) = 0 /\ open
SizedSkips(buf, open, minSize) == Len(buf) < minSize /\ open

\* BaseSizedChunksProducer._next_chunk: it raises StopAsyncIteration
SizedEndsShort(buf, open, minSize) == Len(buf) < minSize /\ ~ open
SizedEnds(buf, open, minSize) == Len(buf) = 0 /\ ~ open

\* BaseSizedChunksProducer._next_chunk with _min_size = minSize
SizedNextChunk(buf, open, minSize) ==
    IF SizedSkips(buf, open, minSize) THEN [what |-> "skip", chunk |-> <<>>, buffer |-> buf]
    ELSE IF SizedEnds(buf, open, minSize) THEN [what |-> "eos", chunk |-> <<>>, buffer |-> buf]
    ELSE LET result == SizedTake(buf, max_size)
         IN [what |-> "chunk", chunk |-> result,
             buffer |-> SubSeq(buf, Len(result) + 1, Len(buf))]

\* BaseChunksSeparatorProducer._next_chunk: the chunk it returns when the
\* separator occurs in the buffer
SeparatorChunkBare(sep, buf) == SplitOnce(sep, buf)[1]
SeparatorChunk(sep, buf) == SplitOnce(sep, buf)[1] \o sep

\* BaseChunksSeparatorProducer._next_chunk
SeparatorNextChunk(buf, open) ==
    IF ~ Contains(separator, buf)
    THEN IF open THEN [what |-> "skip", chunk |-> <<>>, buffer |-> buf]
         ELSE IF Len(buf) > 0 THEN [what |-> "chunk", chunk |-> buf, buffer |-> <<>>]
         ELSE [what |-> "eos", chunk |-> <<>>, buffer |-> buf]
    ELSE [what |-> "chunk", chunk |-> SeparatorChunk(separator, buf),
          buffer |-> SplitOnce(separator, buf)[2]]

\* BaseChunksFirstSeparatorProducer._next_chunk with _first_sep = fs: until
\* the first separator chunk it is the separator producer, after it the
\* accumulator that hands out whatever is buffered
FirstSeparatorNextChunkAlways(buf, open, fs) ==
    LET r == SeparatorNextChunk(buf, open)
    IN [what |-> r.what, chunk |-> r.chunk, buffer |-> r.buffer, first_sep |-> fs]
FirstSeparatorNextChunk(buf, open, fs) ==
    IF (fs /\ ~ Contains(separator, buf)) \/ Len(buf) = 0
    THEN IF open THEN [what |-> "skip", chunk |-> <<>>, buffer |-> buf, first_sep |-> fs]
         ELSE IF Len(buf) > 0 THEN [what |-> "chunk", chunk |-> buf, buffer |-> <<>>, first_sep |-> fs]
         ELSE [what |-> "eos", chunk |-> <<>>, buffer |-> buf, first_sep |-> fs]
    ELSE IF fs
         THEN LET r == SeparatorNextChunk(buf, open)
              IN [what |-> r.what, chunk |-> r.chunk, buffer |-> r.buffer, first_sep |-> FALSE]
         ELSE [what |-> "chunk", chunk |-> buf, buffer |-> <<>>, first_sep |-> FALSE]

\* Python's round() of the fraction p / q: to the nearest integer, a tie to
\* the even one
Round(p, q) ==
    LET lo == p \div q
        r == p % q
    IN IF 2 * r < q THEN lo
       ELSE IF 2 * r > q THEN lo + 1
       ELSE IF lo % 2 = 0 THEN lo ELSE lo + 1

\* BaseChunksSlowStartProducer._calculate_chunk_size: the new _min_size for
\* a request that comes elapsed ticks after the previous one
CalculateChunkSizeUnclamped(size, elapsed) ==
    IF ~ last_dt THEN initial_min_size
    ELSE IF elapsed < interval /\ size < max_size THEN Round(size * multiplier, 2)
    ELSE IF size > initial_min_size THEN Round(size * 2, multiplier)
    ELSE size
CalculateChunkSize(size, elapsed) ==
    IF ~ last_dt THEN initial_min_size
    ELSE LET stepped ==
                 IF elapsed < interval /\ size < max_size THEN Round(size * multiplier, 2)
                 ELSE IF size > initial_min_size THEN Round(size * 2, multiplier)
                 ELSE size
         IN Max(Min(stepped, max_size), initial_min_size)

\* one turn of the loop of BaseDataChunkProducer._next_frame inside
\* BaseProducer.__anext__: a skip suspends the caller in condition.wait(),
\* end-of-stream unmounts the producer (which forgets _last_dt), a chunk is
\* returned. ch_req.nth counts the requests since the producer was mounted
\* (2 stands for "not the first").
ChunkTurn(elapsed, buf, open) ==
    LET size == IF ch_kind = "slowstart" THEN CalculateChunkSize(min_size, elapsed) ELSE min_size
        fs == IF ch_state = "NULL" THEN TRUE ELSE first_sep
        r == CASE ch_kind = "separator" -> SeparatorNextChunk(buf, open)
               [] ch_kind = "firstseparator" -> FirstSeparatorNextChunk(buf, open, fs)
               [] OTHER                 -> SizedNextChunk(buf, open, size)
    IN /\ min_size' = size
       /\ first_sep' = IF ch_kind = "firstseparator" THEN r.first_sep ELSE first_sep
       /\ last_dt' = (r.what # "eos" /\ (last_dt \/ ch_kind = "slowstart"))
       /\ ch_req' = [kind |-> IF ~ last_dt THEN "first"
                              ELSE IF elapsed < interval THEN "fast" ELSE "slow",
                     before |-> min_size, after |-> size,
                     nth |-> IF ch_state = "NULL" THEN 1 ELSE Min(ch_req.nth + 1, 2)]
       /\ CASE r.what = "skip" ->
                 /\ ch_pc' = "waiting"
                 /\ ch_state' = "READY" /\ buffer' = buf /\ open_buffer' = open
                 /\ UNCHANGED ch_chunks
            [] r.what = "eos" ->
                 /\ ch_pc' = "done"
                 /\ ch_state' = "NULL" /\ buffer' = <<>> /\ open_buffer' = FALSE
                 /\ UNCHANGED ch_chunks
            [] OTHER ->
                 /\ ch_pc' = "idle"
                 /\ ch_state' = "READY" /\ buffer' = r.buffer /\ open_buffer' = open
                 /\ ch_chunks' = Append(ch_chunks, r.chunk)

ChunkConfig == <<ch_kind, max_size, initial_min_size, multiplier, interval, separator>>
ChunkOthers == <<teeVars, brVars, caVars, qVars, elVars>>

\* mount() called by the application before it pushes (as the tests do):
\* BaseDataChunkProducer._mount empties and opens the buffer
ChunkMount ==
    /\ ch_state = "NULL" /\ ch_pc = "idle" /\ ~ ch_closed
    /\ ch_state' = "READY"
    /\ buffer' = <<>>
    /\ open_buffer' = TRUE
    /\ ch_req' = [ch_req EXCEPT !.nth = 0]
    /\ first_sep' = (ch_kind = "firstseparator")
    /\ UNCHANGED <<ChunkConfig, min_size, last_dt, ch_pc, ch_frames, ch_closed,
                   ch_chunks, ch_error, ChunkOthers>>

\* unmount() called by the application on the mounted producer:
\* BaseChunksSlowStartProducer._unmount forgets _last_dt,
\* BaseDataChunkProducer._unmount drops and closes the buffer, and
\* BaseProducer._unmount cancels a caller suspended in next(), whose call
\* ends with CancelledError. The stream may be mounted and fed again: the
\* record of the pushed frames and returned chunks starts afresh.
ChunkUnmount ==
    /\ ch_state = "READY"
    /\ ch_state' = "NULL"
    /\ last_dt' = FALSE
    /\ buffer' = <<>>
    /\ open_buffer' = FALSE
    /\ ch_closed' = FALSE
    /\ ch_pc' = IF ch_pc \in {"waiting", "notified"} THEN "idle" ELSE ch_pc
    /\ ch_frames' = <<>>
    /\ ch_chunks' = <<>>
    /\ UNCHANGED <<ChunkConfig, min_size, ch_req, ch_error, first_sep, ChunkOthers>>

\* push_frame(frame) with a data frame: it is appended and _notify wakes the
\* waiting caller if the buffer is worth it
ChunkPushFrame(frame) ==
    /\ open_buffer
    /\ Len(ch_pushed) + Len(frame) <= MaxPushed
    /\ Len(ch_frames) < MaxPushes
    /\ buffer' = buffer \o frame
    /\ ch_frames' = Append(ch_frames, frame)
    /\ ch_pc' = IF ch_pc = "waiting" /\ ChunkNotifies(buffer \o frame, TRUE)
                THEN "notified" ELSE ch_pc
    /\ UNCHANGED <<ChunkConfig, min_size, last_dt, ch_state, open_buffer, ch_closed,
                   ch_chunks, ch_req, ch_error, first_sep, ChunkOthers>>

\* push_frame(StopAsyncIteration()): the buffer is closed and the waiting
\* caller woken
ChunkPushEnd ==
    /\ open_buffer
    /\ open_buffer' = FALSE
    /\ ch_closed' = TRUE
    /\ ch_pc' = IF ch_pc = "waiting" THEN "notified" ELSE ch_pc
    /\ UNCHANGED <<ChunkConfig, min_size, last_dt, ch_state, buffer, ch_frames,
                   ch_chunks, ch_req, ch_error, first_sep, ChunkOthers>>

\* push_frame(ex) with the exception the upstream pull of the loop raised:
\* the buffer is left as it is and _notify is called for it as it stands
ChunkPushError ==
    /\ open_buffer
    /\ ~ ch_error
    /\ ch_error' = TRUE
    /\ ch_pc' = IF ch_pc = "waiting" /\ ChunkNotifies(buffer, TRUE)
                THEN "notified" ELSE ch_pc
    /\ UNCHANGED <<ChunkConfig, min_size, last_dt, ch_state, buffer, open_buffer,
                   ch_frames, ch_closed, ch_chunks, ch_req, first_sep, ChunkOthers>>

\* next() of the caller: mount on demand, then the first turn of the loop
ChunkAnext ==
    /\ ch_pc = "idle"
    /\ ch_state = "NULL" => ~ ch_closed
    /\ \E elapsed \in 0..interval :
          IF ch_state = "NULL" THEN ChunkTurn(elapsed, <<>>, TRUE)
          ELSE ChunkTurn(elapsed, buffer, open_buffer)
    /\ UNCHANGED <<ChunkConfig, ch_frames, ch_closed, ch_error, ChunkOthers>>

\* the caller woken from condition.wait() takes another turn of the loop
ChunkWake ==
    /\ ch_pc = "notified"
    /\ \E elapsed \in 0..interval : ChunkTurn(elapsed, buffer, open_buffer)
    /\ UNCHANGED <<ChunkConfig, ch_frames, ch_closed, ch_error, ChunkOthers>>

ChunkNext ==
    \/ ChunkMount
    \/ \E frame \in SeqsUpTo(Bytes, MaxFrameLen) : ChunkPushFrame(frame)
    \/ ChunkPushEnd
    \/ ChunkAnext
    \/ ChunkWake

\* the same with the application unmounting (and so remounting) at will
ChunkRemountNext ==
    \/ ChunkNext
    \/ ChunkUnmount

ChunkFailNext ==
    \/ ChunkNext
    \/ ChunkPushError

\* ================================================== element lifecycle
\* the most stages of the pipeline, and the most next() calls followed
NStages == 2
MaxCalls == 3
PlElems == 0..NStages
PlStages == 1..NStages

\* the exceptions: which one, and the element whose code raised it
NoError == [exc |-> "None", of |-> 0]
\* RuntimeError('Not source set') of SyncSource._mount / BaseConsumer._mount
NotSourceSet(e) == [exc |-> "Not source set", of |-> e]
\* RuntimeError('Element has an error') of BaseElement.mount
HasError(e) == [exc |-> "Element has an error", of |-> e]
\* the exception the failing generator raises
SourceError == [exc |-> "ValueError", of |-> 0]
\* the exception map_func of stage e raises
MapError(e) == [exc |-> "ValueError", of |-> e]
\* an exception handed to _set_error by the code that uses the element
Reported(e) == [exc |-> "reported", of |-> e]

\* what a call of next() ends with: a frame, end-of-stream, an exception,
\* or (inside the element only) the skip signal
PlFrame(v) == [kind |-> "frame", val |-> v, ex |-> NoError]
PlEndOfStream == [kind |-> "eos", val |-> 0, ex |-> NoError]
PlSkipped == [kind |-> "skip", val |-> 0, ex |-> NoError]
PlRaises(ex) == [kind |-> "error", val |-> 0, ex |-> ex]

\* the map function of the stages (test_mappers.py) and the frames on which
\* it raises: "none", the "even" ones or "all"
map_func(x) == x * 2
PlMapRaises(e, x) ==
    CASE pl_bad[e] = "even" -> x % 2 = 0
      [] pl_bad[e] = "all"  -> TRUE
      [] OTHER              -> FALSE

PlInitOver(ns, kinds, datas, wirings, bads, skips) ==
    /\ pl_n \in ns
    /\ pl_kind \in kinds
    /\ pl_data \in datas
    /\ pl_has_source \in wirings
    /\ pl_bad \in bads
    /\ pl_skip_errors \in skips
    /\ pl_state = [e \in PlElems |-> "NULL"]
    /\ pl_last_error = [e \in PlElems |-> NoError]
    /\ pl_pos = 0
    /\ pl_failed = FALSE
    /\ pl_emitted = <<>>
    /\ pl_last = [op |-> "none", elem |-> 0, raised |-> NoError,
                  state |-> [e \in PlElems |-> "NULL"],
                  last_error |-> [e \in PlElems |-> NoError]]
    /\ pl_out = <<>>
    /\ pl_pulled = <<>>

PlIdle == PlInitOver({0}, {"list"}, {<<>>}, {[e \in PlElems |-> TRUE]},
                     {[e \in PlStages |-> "none"]}, {[e \in PlStages |-> FALSE]})

\* -------------------------------------------------------- composition
\* the elements composed: two sources (Producer only), a stage (Consumer and
\* Producer) and two sinks (Consumer only)
CoElems == {"source", "source2", "stage", "sink", "sink2"}
IsProducer(x) == x \in {"source", "source2", "stage"}
IsConsumer(x) == x \in {"stage", "sink", "sink2"}
CoConsumers == {x \in CoElems : IsConsumer(x)}

CoIdle ==
    /\ co_source = [x \in CoConsumers |-> "None"]
    /\ co_state = [x \in CoElems |-> "NULL"]
    /\ co_last = [op |-> "none", a |-> "None", b |-> "None", returned |-> "None",
                  raised |-> "None", ready |-> FALSE, before |-> "None",
                  changed |-> {}]

CoInit == CoIdle

\* what an operator gives: the sources after it, the element returned, the
\* exception raised
CoDone(source, returned) == [source |-> source, returned |-> returned, raised |-> "None"]
CoRaise(source, ex) == [source |-> source, returned |-> "None", raised |-> ex]

\* BaseConsumer.set_source, through the setter of `source`
CoSetSourceAlways(source, b, a) ==
    CoDone([source EXCEPT ![b] = a], b)
CoSetSource(source, b, a) ==
    IF source[b] = a THEN CoDone(source, b)
    ELSE IF co_state[b] = "READY" THEN CoRaise(source, "RuntimeError")
    ELSE CoDone([source EXCEPT ![b] = a], b)

\* BaseProducer.__rshift__ / BaseElement.__rshift__ of a applied to b, and
\* BaseConsumer.__lshift__ / BaseElement.__lshift__ of b applied to a
RECURSIVE CoRshift(_, _, _)
CoLshift(source, b, a) ==
    IF IsConsumer(b) /\ IsProducer(a) THEN CoSetSource(source, b, a)
    ELSE CoRshift(source, a, b)
CoRshift(source, a, b) ==
    IF IsProducer(a) /\ IsConsumer(b) THEN CoLshift(source, b, a)
    ELSE CoRaise(source, "TypeError")

\* the elements a mount() or unmount() of x reaches: x and the sources
\* behind it; "None" is among them when a consumer on the way has none
RECURSIVE CoChain(_, _)
CoChain(x, seen) ==
    IF x = "None" \/ x \in seen \/ ~ IsConsumer(x) THEN seen \cup {x}
    ELSE CoChain(co_source[x], seen \cup {x})

\* whether the sources behind x end in a Producer without running in a circle
RECURSIVE CoGrounded(_, _)
CoGrounded(x, seen) ==
    IF x = "None" \/ x \in seen THEN FALSE
    ELSE IF ~ IsConsumer(x) THEN TRUE
    ELSE CoGrounded(co_source[x], seen \cup {x})

CoOthers == <<teeVars, brVars, caVars, qVars, chVars, plVars, skVars, moreVars>>

CoApply(op, a, b, r) ==
    /\ co_source' = r.source
    /\ co_last' = [op |-> op, a |-> a, b |-> b, returned |-> r.returned,
                   raised |-> r.raised, ready |-> co_state[b] = "READY",
                   before |-> IF IsConsumer(b) THEN co_source[b] ELSE "None",
                   changed |-> {x \in CoConsumers : r.source[x] # co_source[x]}]
    /\ UNCHANGED <<co_state, CoOthers>>

\* the application evaluates a >> b
CoRshiftOp(a, b) == CoApply(">>", a, b, CoRshift(co_source, a, b))

\* the application evaluates b << a
CoLshiftOp(b, a) == CoApply("<<", a, b, CoLshift(co_source, b, a))

\* mount() of an element whose sources are all set: it and the sources behind
\* it become READY (a mount that fails is followed in the pipeline above)
CoMount(x) ==
    /\ CoGrounded(x, {})
    /\ co_state' = [y \in CoElems |-> IF y \in CoChain(x, {}) THEN "READY" ELSE co_state[y]]
    /\ co_last' = [op |-> "mount", a |-> "None", b |-> x, returned |-> "None",
                   raised |-> "None", ready |-> co_state[x] = "READY",
                   before |-> "None", changed |-> {}]
    /\ UNCHANGED <<co_source, CoOthers>>

\* unmount() of a READY element: it and the sources behind it become NULL
CoUnmount(x) ==
    /\ co_state[x] = "READY"
    /\ co_state' = [y \in CoElems |-> IF y \in CoChain(x, {}) THEN "NULL" ELSE co_state[y]]
    /\ co_last' = [op |-> "unmount", a |-> "None", b |-> x, returned |-> "None",
                   raised |-> "None", ready |-> TRUE, before |-> "None",
                   changed |-> {}]
    /\ UNCHANGED <<co_source, CoOthers>>

CoNext ==
    \/ \E a, b \in CoElems : CoRshiftOp(a, b)
    \/ \E a, b \in CoElems : CoLshiftOp(b, a)
    \/ \E x \in CoElems : CoMount(x)
    \/ \E x \in CoElems : CoUnmount(x)

\* ------------------------------------------------------------ Last sink
\* the most get_frame() calls followed
MaxGets == 2
\* the sink, as a sender of messages
SinkElem == NStages + 1

\* the states of a Future
FutNone == [st |-> "none", val |-> 0, ex |-> NoError]
FutPending == [st |-> "pending", val |-> 0, ex |-> NoError]
FutCancelled == [st |-> "cancelled", val |-> 0, ex |-> NoError]
FutOf(v) == [st |-> "result", val |-> v, ex |-> NoError]
FutRaising(ex) == [st |-> "exception", val |-> 0, ex |-> ex]

\* ValueError() of Last._consume_frame for a stream without frames
EmptyStream == [exc |-> "ValueError()", of |-> SinkElem]
\* InvalidStateError of Future.set_exception on a future that is done
InvalidState == [exc |-> "InvalidStateError", of |-> SinkElem]

SinkIdle ==
    /\ sk_state = "NULL"
    /\ sk_last_error = NoError
    /\ sk_frame_fut = FutNone
    /\ sk_previous_frame = <<>>
    /\ sk_loop = "none"
    /\ sk_unmount_task = FALSE
    /\ sk_pc = "idle"
    /\ sk_obs = <<>>


\* the part of the state a call works on
PlNow == [state |-> pl_state, last_error |-> pl_last_error, pos |-> pl_pos,
          failed |-> pl_failed, emitted |-> <<>>, pulled |-> pl_pulled]

\* BaseConsumer.bus: a consumer's bus is the one of its source, so an element
\* has a bus when every consumer up to the SyncSource has its source set
PlHasBus(e) == \A i \in 1..e : pl_has_source[i]

\* _send_message(_build_message(type, ex=ex)) where its failure for want of
\* a bus is swallowed or cannot happen
PlSend(w, e, type, ex) ==
    IF PlHasBus(e)
    THEN [w EXCEPT !.emitted = Append(@, [sender |-> e, type |-> type, ex |-> ex])]
    ELSE w

\* _unmount of element e (BaseConsumer._unmount unmounts the source and
\* swallows the failure when there is none) and BaseElement.unmount
RECURSIVE PlUnmountCall(_, _)
PlTeardown(w, e) ==
    IF e > 0 /\ pl_has_source[e] THEN PlUnmountCall(w, e - 1) ELSE w
PlUnmountCallAgain(w, e) ==
    IF w.state[e] = "ERROR" THEN w
    ELSE PlSend([PlTeardown(w, e) EXCEPT !.state[e] = "NULL"], e, "element-null", NoError)
PlUnmountCall(w, e) ==
    IF w.state[e] # "READY" THEN w
    ELSE PlSend([PlTeardown(w, e) EXCEPT !.state[e] = "NULL"], e, "element-null", NoError)

\* BaseElement._set_error
PlSetErrorAgain(w, e, ex) ==
    PlSend([PlTeardown(w, e) EXCEPT !.state[e] = "ERROR", !.last_error[e] = ex],
           e, "element-error", ex)
PlSetError(w, e, ex) ==
    IF w.state[e] = "ERROR" THEN w
    ELSE PlSend([PlTeardown(w, e) EXCEPT !.state[e] = "ERROR", !.last_error[e] = ex],
                e, "element-error", ex)

\* _mount of element e (SyncSource._mount takes a new iterator of its source,
\* which starts a list afresh and leaves a generator where it is;
\* BaseConsumer._mount mounts the source) and BaseElement.mount. Both give
\* the new state and the exception raised, if any.
RECURSIVE PlMountCall(_, _)
PlSetup(w, e) ==
    IF ~ pl_has_source[e] THEN [w |-> w, raised |-> NotSourceSet(e)]
    ELSE IF e = 0
    THEN [w |-> [w EXCEPT !.pos = IF pl_kind = "list" THEN 0 ELSE @], raised |-> NoError]
    ELSE PlMountCall(w, e - 1)
PlMountCallKeepsState(w, e) ==
    IF w.state[e] = "ERROR" THEN [w |-> w, raised |-> HasError(e)]
    ELSE IF w.state[e] # "NULL" THEN [w |-> w, raised |-> NoError]
    ELSE LET s == PlSetup(w, e)
         IN IF s.raised = NoError
            THEN [w |-> PlSend([s.w EXCEPT !.state[e] = "READY"], e, "element-ready", NoError),
                  raised |-> NoError]
            ELSE s
PlMountCall(w, e) ==
    IF w.state[e] = "ERROR" THEN [w |-> w, raised |-> HasError(e)]
    ELSE IF w.state[e] # "NULL" THEN [w |-> w, raised |-> NoError]
    ELSE LET s == PlSetup(w, e)
         IN IF s.raised = NoError
            THEN [w |-> PlSend([s.w EXCEPT !.state[e] = "READY"], e, "element-ready", NoError),
                  raised |-> NoError]
            ELSE [w |-> PlSetError(s.w, e, s.raised), raised |-> s.raised]

\* SyncSource._next_frame
PlSourceNextFrame(w) ==
    IF w.pos < Len(pl_data)
    THEN [w |-> [w EXCEPT !.pos = @ + 1, !.pulled = Append(@, pl_data[w.pos + 1])],
          out |-> PlFrame(pl_data[w.pos + 1])]
    ELSE IF pl_kind = "failing" /\ ~ w.failed
    THEN [w |-> [w EXCEPT !.failed = TRUE], out |-> PlRaises(SourceError)]
    ELSE [w |-> w, out |-> PlEndOfStream]

\* BaseMap.process_frame of stage e
PlProcessFramePasses(e, x) ==
    IF PlMapRaises(e, x)
    THEN IF pl_skip_errors[e] THEN PlFrame(x) ELSE PlRaises(MapError(e))
    ELSE PlFrame(map_func(x))
PlProcessFrame(e, x) ==
    IF PlMapRaises(e, x)
    THEN IF pl_skip_errors[e] THEN PlSkipped ELSE PlRaises(MapError(e))
    ELSE PlFrame(map_func(x))

\* BaseProducer.__anext__ of element e, with BaseStage._next_frame and
\* BaseConsumer.consume_frame for a stage: mount on demand, skip is retried
\* after a frame-skipped message, end-of-stream unmounts the element, any
\* other exception is announced with element-error and raised
RECURSIVE PlAnext(_, _)
PlNextFrame(w, e) ==
    IF e = 0 THEN PlSourceNextFrame(w)
    ELSE LET r == PlAnext(w, e - 1)
         IN IF r.out.kind = "frame"
            THEN [w |-> r.w, out |-> PlProcessFrame(e, r.out.val)]
            ELSE r
PlAnextStaysMounted(w, e) ==
    LET m == IF w.state[e] # "READY" THEN PlMountCall(w, e)
             ELSE [w |-> w, raised |-> NoError]
    IN IF m.raised # NoError
       THEN [w |-> PlSend(m.w, e, "element-error", m.raised), out |-> PlRaises(m.raised)]
       ELSE LET r == PlNextFrame(m.w, e)
            IN CASE r.out.kind = "frame" -> r
                 [] r.out.kind = "eos"   -> r
                 [] r.out.kind = "skip"  -> PlAnext(PlSend(r.w, e, "frame-skipped", NoError), e)
                 [] OTHER -> [w |-> PlSend(r.w, e, "element-error", r.out.ex), out |-> r.out]
PlAnext(w, e) ==
    LET m == IF w.state[e] # "READY" THEN PlMountCall(w, e)
             ELSE [w |-> w, raised |-> NoError]
    IN IF m.raised # NoError
       THEN [w |-> PlSend(m.w, e, "element-error", m.raised), out |-> PlRaises(m.raised)]
       ELSE LET r == PlNextFrame(m.w, e)
            IN CASE r.out.kind = "frame" -> r
                 [] r.out.kind = "eos"   -> [w |-> PlUnmountCall(r.w, e), out |-> PlEndOfStream]
                 [] r.out.kind = "skip"  -> PlAnext(PlSend(r.w, e, "frame-skipped", NoError), e)
                 [] OTHER -> [w |-> PlSend(r.w, e, "element-error", r.out.ex), out |-> r.out]

PlOthers == <<teeVars, brVars, caVars, qVars, chVars, coVars, moreVars>>
PlUsers == <<skVars>>

\* the state a call leaves, and the record of the call
PlSet(w, op, e, raised) ==
    /\ pl_state' = w.state
    /\ pl_last_error' = w.last_error
    /\ pl_pos' = w.pos
    /\ pl_failed' = w.failed
    /\ pl_emitted' = w.emitted
    /\ pl_pulled' = w.pulled
    /\ pl_last' = [op |-> op, elem |-> e, raised |-> raised,
                   state |-> pl_state, last_error |-> pl_last_error]
    /\ UNCHANGED <<plConfig, PlOthers>>

\* the application calls mount() on an element of the pipeline
PlMount(e) ==
    /\ e <= pl_n
    /\ LET m == PlMountCall(PlNow, e) IN PlSet(m.w, "mount", e, m.raised)
    /\ UNCHANGED <<pl_out, PlUsers>>

\* the application calls unmount() on an element of the pipeline
PlUnmount(e) ==
    /\ e <= pl_n
    /\ PlSet(PlUnmountCall(PlNow, e), "unmount", e, NoError)
    /\ UNCHANGED <<pl_out, PlUsers>>

\* the code that drives an element reports a failure to it (_set_error, as
\* BaseIndependentConsumer._consume_all does)
PlReportError(e) ==
    /\ e <= pl_n
    /\ PlSet(PlSetError(PlNow, e, Reported(e)), "set_error", e, NoError)
    /\ UNCHANGED <<pl_out, PlUsers>>

\* the application calls next() on the last element of the pipeline
PlNextCall ==
    /\ Len(pl_out) < MaxCalls
    /\ LET r == PlAnext(PlNow, pl_n)
       IN /\ PlSet(r.w, "next", pl_n, r.out.ex)
          /\ pl_out' = Append(pl_out, r.out)
    /\ UNCHANGED PlUsers

\* a pipeline that the application mounts, unmounts and pulls
PlRunNext ==
    \/ \E e \in PlElems : PlMount(e)
    \/ \E e \in PlElems : PlUnmount(e)
    \/ PlNextCall

PlNext ==
    \/ \E e \in PlElems : PlMount(e)
    \/ \E e \in PlElems : PlUnmount(e)
    \/ \E e \in PlElems : PlReportError(e)
    \/ PlNextCall

\* ------------------------------------------------- Last sink, continued
\* the sink and the pipeline a step of the sink works on
SinkNow == [w |-> PlNow, state |-> sk_state, last_error |-> sk_last_error,
            frame_fut |-> sk_frame_fut, previous_frame |-> sk_previous_frame,
            loop |-> sk_loop]

\* the state a step of the sink leaves; the call it made on the pipeline,
\* if any, is recorded as the pipeline's last call
SinkSet(s, op, raised) ==
    /\ sk_state' = s.state
    /\ sk_last_error' = s.last_error
    /\ sk_frame_fut' = s.frame_fut
    /\ sk_previous_frame' = s.previous_frame
    /\ sk_loop' = s.loop
    /\ PlSet(s.w, op, pl_n, raised)
    /\ UNCHANGED pl_out

\* _send_message of the sink, whose bus is the one of its source
SinkSend(w, type, ex) ==
    IF PlHasBus(pl_n)
    THEN [w EXCEPT !.emitted = Append(@, [sender |-> SinkElem, type |-> type, ex |-> ex])]
    ELSE w

\* BaseIndependentConsumer._stop_consumer called by another task than the
\* one of _consume_all: the task is cancelled unless it is done
SinkStopConsumer(loop) ==
    IF loop \in {"scheduled", "pulling"} THEN "cancelled" ELSE loop

\* _unmount of the sink: Last._unmount forgets the previous frame,
\* BaseOneFrameSink._unmount cancels a pending _frame_fut,
\* BaseIndependentConsumer._unmount stops the task (a task that stops itself
\* runs on until it next suspends), BaseConsumer._unmount unmounts the source
SinkTeardownForgets(s, byLoop) ==
    [s EXCEPT !.previous_frame = <<>>,
              !.frame_fut = FutNone,
              !.loop = IF byLoop THEN @ ELSE SinkStopConsumer(@),
              !.w = PlUnmountCall(s.w, pl_n)]
SinkTeardown(s, byLoop) ==
    [s EXCEPT !.previous_frame = <<>>,
              !.frame_fut = IF @.st = "pending" THEN FutCancelled ELSE @,
              !.loop = IF byLoop THEN @ ELSE SinkStopConsumer(@),
              !.w = PlUnmountCall(s.w, pl_n)]

\* BaseElement._set_error of the sink, called by the task of _consume_all
SinkSetErrorUnmounts(s, ex) ==
    IF s.state # "READY" THEN s
    ELSE LET t == SinkTeardown(s, TRUE)
         IN [t EXCEPT !.state = "NULL", !.w = SinkSend(t.w, "element-null", NoError)]
SinkSetError(s, ex) ==
    IF s.state = "ERROR" THEN s
    ELSE LET t == SinkTeardown(s, TRUE)
         IN [t EXCEPT !.state = "ERROR", !.last_error = ex,
                      !.w = SinkSend(t.w, "element-error", ex)]

\* BaseElement.unmount of the sink, called by the task that _consume_all
\* schedules when it ends
SinkUnmountCall(s) ==
    IF s.state # "READY" THEN s
    ELSE LET t == SinkTeardown(s, FALSE)
         IN [t EXCEPT !.state = "NULL", !.w = SinkSend(t.w, "element-null", NoError)]

\* one turn of the loop of _consume_all: consume_frame with
\* Last._consume_frame. A frame is kept as the previous one and skipped;
\* end-of-stream settles _frame_fut (and, having returned the last frame, the
\* loop goes on to pull once more); any other exception settles _frame_fut
\* and, through except Exception in _consume_all, puts the sink in ERROR.
\* The result tells whether the loop goes on.
SinkConsume(s) ==
    LET r == PlAnext(s.w, pl_n)
        pulled == [s EXCEPT !.w = r.w]
    IN CASE r.out.kind = "frame" ->
              [s |-> [pulled EXCEPT !.previous_frame = <<r.out.val>>,
                                    !.w = SinkSend(r.w, "frame-skipped", NoError)],
               loop |-> "pulling", raised |-> NoError]
         [] r.out.kind = "eos" ->
              IF s.frame_fut.st # "pending"
              THEN [s |-> pulled, loop |-> "finished", raised |-> NoError]
              ELSE IF s.previous_frame = <<>>
              THEN [s |-> [pulled EXCEPT !.frame_fut = FutRaising(EmptyStream)],
                    loop |-> "finished", raised |-> NoError]
              ELSE [s |-> [pulled EXCEPT !.frame_fut = FutOf(s.previous_frame[1])],
                    loop |-> "pulling", raised |-> NoError]
         [] OTHER ->
              LET ex == IF s.frame_fut.st = "pending" THEN r.out.ex ELSE InvalidState
                  settled == [pulled EXCEPT !.frame_fut = IF @.st = "pending"
                                                           THEN FutRaising(r.out.ex) ELSE @]
              IN [s |-> SinkSetError(settled, ex), loop |-> "failed", raised |-> r.out.ex]

\* get_frame() is called: it awaits _frame_fut if there is one; otherwise it
\* mounts the sink (BaseOneFrameSink._mount makes _frame_fut, BaseConsumer._mount
\* mounts the source), starts the task of _consume_all and awaits _frame_fut
SinkGetFrame ==
    /\ sk_pc = "idle"
    /\ Len(sk_obs) < MaxGets
    /\ IF sk_frame_fut.st = "pending"
       THEN /\ sk_pc' = "waiting"
            /\ UNCHANGED <<plVars, sk_state, sk_last_error, sk_frame_fut, sk_previous_frame,
                           sk_loop, sk_unmount_task, sk_obs, PlOthers>>
       ELSE IF sk_frame_fut.st # "none"
       THEN /\ sk_obs' = Append(sk_obs, [out |-> sk_frame_fut, state |-> sk_state])
            /\ UNCHANGED <<plVars, sk_state, sk_last_error, sk_frame_fut, sk_previous_frame,
                           sk_loop, sk_unmount_task, sk_pc, PlOthers>>
       ELSE LET m == PlMountCall(PlNow, pl_n)
                made == [SinkNow EXCEPT !.w = m.w, !.frame_fut = FutPending,
                                        !.previous_frame = <<>>]
            IN IF m.raised # NoError
               THEN /\ SinkSet(SinkSetError(made, m.raised), "mount", m.raised)
                    /\ sk_obs' = Append(sk_obs, [out |-> FutRaising(m.raised), state |-> "ERROR"])
                    /\ UNCHANGED <<sk_unmount_task, sk_pc>>
               ELSE /\ SinkSet([made EXCEPT !.state = "READY",
                                            !.loop = IF @ = "none" THEN "scheduled" ELSE @,
                                            !.w = SinkSend(m.w, "element-ready", NoError)],
                               "mount", NoError)
                    /\ sk_pc' = "waiting"
                    /\ UNCHANGED <<sk_unmount_task, sk_obs>>

\* the task of _consume_all runs from one pull of the source to the next; when
\* the loop ends, its finally clause schedules unmount(). Nothing unmounts
\* the sink while the loop runs, so mount() and the READY test of
\* consume_frame pass.
SinkLoopStep ==
    /\ sk_loop \in {"scheduled", "pulling"}
    /\ sk_state = "READY"
    /\ LET c == SinkConsume(SinkNow)
       IN /\ SinkSet([c.s EXCEPT !.loop = c.loop], "next", c.raised)
          /\ sk_unmount_task' = (sk_unmount_task \/ c.loop # "pulling")
    /\ UNCHANGED <<sk_pc, sk_obs>>

\* the caller of get_frame() is resumed with the outcome of _frame_fut
SinkWake ==
    /\ sk_pc = "waiting"
    /\ sk_frame_fut.st # "pending"
    /\ sk_pc' = "idle"
    /\ sk_obs' = Append(sk_obs, [out |-> sk_frame_fut, state |-> sk_state])
    /\ UNCHANGED <<plVars, sk_state, sk_last_error, sk_frame_fut, sk_previous_frame,
                   sk_loop, sk_unmount_task, PlOthers>>

\* the unmount() scheduled by the finally clause of _consume_all runs
SinkUnmountTask ==
    /\ sk_unmount_task
    /\ sk_unmount_task' = FALSE
    /\ SinkSet(SinkUnmountCall(SinkNow), "unmount", NoError)
    /\ UNCHANGED <<sk_pc, sk_obs>>

SinkNext ==
    \/ SinkGetFrame
    \/ SinkLoopStep
    \/ SinkWake
    \/ SinkUnmountTask

\* ================================================================== Bus
\* most messages the application sends, most bridges built, most end_of_bus
\* calls
MaxMsgs == 2
MaxPipes == 2
MaxEnds == 1

\* bus A is the one piped into; the Bus() a BusMessageSource makes for itself
\* (BaseSource.__init__) is "private"
Buses == {"A", "B"}
MsgTypes == {"log", "element-error"}

NoMsg == [id |-> 0, type |-> "none", sender |-> "none"]
\* StopAsyncIteration in the queue of a BusMessageSource
EndOfBus == [id |-> 0, type |-> "eos", sender |-> "none"]

BusTask(t, bus, bridge, msg) == [t |-> t, bus |-> bus, bridge |-> bridge, msg |-> msg]

BusInitOver(filters) ==
    /\ bs_filter \in filters
    /\ bs_bridges = <<>>
    /\ bs_ready = <<>>
    /\ bs_got = [b \in Buses |-> <<>>]
    /\ bs_sent = <<>>
    /\ bs_calls = [piped |-> FALSE, unpiped |-> FALSE, ended |-> FALSE, ends |-> 0]

BusInit == BusInitOver({[b \in Buses |-> IF b = "A" THEN f ELSE {}] : f \in {{}, {"log"}}})
BusIdle == BusInitOver({[b \in Buses |-> {}]})

BusNow == [bridges |-> bs_bridges, ready |-> bs_ready]

\* SimpleMessageFilter.allow with msg_types only
Allow(types, msg) == types = {} \/ msg.type \in types

\* Bus._producers of a bus: the BusMessageSource of every bridge built from it
BusProducers(w, bus) == {i \in 1..Len(w.bridges) : w.bridges[i].src = bus}

\* Bus._consumers of a bus
BusConsumers(w, bus) ==
    {i \in 1..Len(w.bridges) : w.bridges[i].dst = bus /\ w.bridges[i].registered}

\* BaseConsumer.bus of a bridging sink: the bus of its source, which is the
\* private Bus() of the BusMessageSource
BusOfSink(w, i) == "private"

\* Bus._get_bus_consumer: the consumers found (none: ValueError)
BusGetBusConsumer(w, self, bus) == {i \in BusConsumers(w, self) : BusOfSink(w, i) = bus}

\* Bus.send_message: a call of the handler is scheduled if the filter
\* allows, then a push_message for each producer
BusSendUnfiltered(w, bus, msg) ==
    [w EXCEPT !.ready = @ \o <<BusTask("handler", bus, 0, msg)>>
        \o SelectSeq([i \in 1..Len(w.bridges) |-> BusTask("push_message", "none", i, msg)],
                     LAMBDA t : t.bridge \in BusProducers(w, bus))]
BusSend(w, bus, msg) ==
    [w EXCEPT !.ready = @
        \o (IF Allow(bs_filter[bus], msg) THEN <<BusTask("handler", bus, 0, msg)>> ELSE <<>>)
        \o SelectSeq([i \in 1..Len(w.bridges) |-> BusTask("push_message", "none", i, msg)],
                     LAMBDA t : t.bridge \in BusProducers(w, bus))]

\* Bus.unpipe: a consumer found is scheduled for unmount and removed
BusUnpipeCall(w, self, bus) ==
    IF BusGetBusConsumer(w, self, bus) = {} THEN w
    ELSE LET c == CHOOSE i \in BusGetBusConsumer(w, self, bus) : TRUE
         IN [w EXCEPT !.ready = Append(@, BusTask("unmount", "none", c, NoMsg)),
                      !.bridges[c].registered = FALSE]

\* Bus.pipe
BusPipeCall(w, self, bus) ==
    IF bus = self \/ BusGetBusConsumer(w, self, bus) # {} THEN w
    ELSE [w EXCEPT
            !.bridges = Append(@, [src |-> bus, dst |-> self, registered |-> TRUE,
                                   state |-> "NULL", queue |-> <<>>,
                                   has_queue |-> FALSE, open |-> FALSE,
                                   finished |-> FALSE, loop |-> "start"]),
            !.ready = Append(@, BusTask("consume_all", "none", Len(w.bridges) + 1, NoMsg))]

\* Bus.end_of_bus: an end_of_bus of every producer is scheduled, then every
\* inbound bridge is unpiped
RECURSIVE BusUnpipeAll(_, _, _)
BusUnpipeAll(w, self, srcs) ==
    IF srcs = {} THEN w
    ELSE LET s == CHOOSE s \in srcs : TRUE
         IN BusUnpipeAll(BusUnpipeCall(w, self, s), self, srcs \ {s})
BusEndOfBusCall(w, bus) ==
    BusUnpipeAll(
        [w EXCEPT !.ready = @ \o
            SelectSeq([i \in 1..Len(w.bridges) |-> BusTask("end_of_bus", "none", i, NoMsg)],
                      LAMBDA t : t.bridge \in BusProducers(w, bus))],
        bus, {w.bridges[i].src : i \in BusConsumers(w, bus)})

\* BaseQueue.push_frame on the BusMessageSource of bridge i with the
\* RuntimeError swallowed by push_message / end_of_bus: the item is put, and
\* a sink waiting in get is woken
BusPushFrame(w, i, item) ==
    LET b == w.bridges[i]
    IN IF ~ b.open \/ ~ b.has_queue THEN w
       ELSE [w EXCEPT !.bridges[i].queue = Append(@, item),
                      !.bridges[i].open = IF item = EndOfBus THEN FALSE ELSE @,
                      !.bridges[i].loop = IF b.loop = "waiting" THEN "woken" ELSE @,
                      !.ready = IF b.loop = "waiting"
                                THEN Append(@, BusTask("resume", "none", i, NoMsg)) ELSE @]

\* the loop of _consume_all of the sink of bridge i from consume_frame on:
\* every message in the queue is sent on the destination bus; on an empty
\* queue the sink waits; at end-of-stream the source unmounts, the loop ends
\* and unmount() of the sink is scheduled
RECURSIVE BusSinkLoop(_, _)
BusSinkLoop(w, i) ==
    LET b == w.bridges[i]
    IN IF b.queue = <<>> THEN [w EXCEPT !.bridges[i].loop = "waiting"]
       ELSE IF Head(b.queue) = EndOfBus
       THEN [w EXCEPT !.bridges[i].queue = <<>>, !.bridges[i].has_queue = FALSE,
                      !.bridges[i].open = FALSE, !.bridges[i].loop = "ended",
                      !.ready = Append(@, BusTask("unmount", "none", i, NoMsg))]
       ELSE BusSinkLoop(BusSend([w EXCEPT !.bridges[i].queue = Tail(@)], b.dst, Head(b.queue)), i)

\* _consume_all of the sink of bridge i starts: mount() of the sink mounts
\* the source, which refuses when the source bus has finished
BusConsumeAll(w, i) ==
    LET b == w.bridges[i]
    IN IF b.state = "ERROR" \/ b.finished
       THEN [w EXCEPT !.bridges[i].state = "ERROR", !.bridges[i].loop = "ended"]
       ELSE BusSinkLoop([w EXCEPT !.bridges[i].state = "READY", !.bridges[i].queue = <<>>,
                                  !.bridges[i].has_queue = TRUE, !.bridges[i].open = TRUE], i)

\* unmount() of the sink of bridge i: BusMessageSink._unmount unpipes, the
\* consumer is stopped, the source is unmounted
BusUnmountSink(w, i) ==
    IF w.bridges[i].state # "READY" THEN w
    ELSE LET w1 == BusUnpipeCall(w, w.bridges[i].dst, w.bridges[i].src)
         IN [w1 EXCEPT !.bridges[i].state = "NULL", !.bridges[i].queue = <<>>,
                       !.bridges[i].has_queue = FALSE, !.bridges[i].open = FALSE,
                       !.bridges[i].loop = "ended"]

\* one callback of the event loop
BusRun(w, task) ==
    CASE task.t = "consume_all" -> BusConsumeAll(w, task.bridge)
      [] task.t = "push_message" -> BusPushFrame(w, task.bridge, task.msg)
      [] task.t = "end_of_bus" ->
            BusPushFrame([w EXCEPT !.bridges[task.bridge].finished = TRUE], task.bridge, EndOfBus)
      [] task.t = "resume" ->
            IF w.bridges[task.bridge].loop = "woken" THEN BusSinkLoop(w, task.bridge) ELSE w
      [] task.t = "unmount" -> BusUnmountSink(w, task.bridge)
      [] OTHER -> w

BusOthers == <<teeVars, brVars, caVars, qVars, chVars, plVars, skVars, coVars, agVars,
               lkVars, rdVars>>

BusSet(w) ==
    /\ bs_bridges' = w.bridges
    /\ bs_ready' = w.ready
    /\ UNCHANGED <<bs_filter, BusOthers>>

\* the application calls A.pipe(bus)
BusPipe(bus) ==
    /\ Len(BusPipeCall(BusNow, "A", bus).bridges) <= MaxPipes
    /\ BusSet(BusPipeCall(BusNow, "A", bus))
    /\ bs_calls' = IF bus = "B"
                   THEN [bs_calls EXCEPT !.piped = TRUE, !.unpiped = FALSE, !.ended = FALSE]
                   ELSE bs_calls
    /\ UNCHANGED <<bs_got, bs_sent>>

\* the application calls A.unpipe(bus)
BusUnpipe(bus) ==
    /\ BusSet(BusUnpipeCall(BusNow, "A", bus))
    /\ bs_calls' = IF bus = "B" THEN [bs_calls EXCEPT !.unpiped = TRUE] ELSE bs_calls
    /\ UNCHANGED <<bs_got, bs_sent>>

\* an element of a bus, or the application, sends a message on it
BusSendMessage(bus, type) ==
    /\ Len(bs_sent) < MaxMsgs
    /\ LET msg == [id |-> Len(bs_sent) + 1, type |-> type, sender |-> bus]
       IN /\ BusSet(BusSend(BusNow, bus, msg))
          /\ bs_sent' = Append(bs_sent, [msg |-> msg, piped |-> bs_calls.piped,
                                         unpiped |-> bs_calls.unpiped,
                                         ended |-> bs_calls.ended])
    /\ UNCHANGED <<bs_got, bs_calls>>

\* end_of_bus() of a bus, as BaseSource._unmount calls it
BusEndOfBus(bus) ==
    /\ bs_calls.ends < MaxEnds
    /\ BusSet(BusEndOfBusCall(BusNow, bus))
    /\ bs_calls' = [bs_calls EXCEPT !.ended = @ \/ bus = "B", !.ends = @ + 1]
    /\ UNCHANGED <<bs_got, bs_sent>>

\* the event loop runs its next callback
BusRunTask ==
    /\ bs_ready # <<>>
    /\ LET task == Head(bs_ready)
       IN /\ BusSet(BusRun([BusNow EXCEPT !.ready = Tail(@)], task))
          /\ bs_got' = IF task.t = "handler"
                       THEN [bs_got EXCEPT ![task.bus] = Append(@, task.msg)] ELSE bs_got
    /\ UNCHANGED <<bs_sent, bs_calls>>

BusNext ==
    \/ \E bus \in Buses : BusPipe(bus)
    \/ \E bus \in Buses : BusUnpipe(bus)
    \/ \E bus \in Buses, type \in MsgTypes : BusSendMessage(bus, type)
    \/ \E bus \in Buses : BusEndOfBus(bus)
    \/ BusRunTask

\* the application calls A.pipe(bus), and A.pipe(B) only once
BusPipeOnce(bus) ==
    /\ bus = "B" => ~ bs_calls.piped
    /\ BusPipe(bus)

BusOnceNext ==
    \/ \E bus \in Buses : BusPipeOnce(bus)
    \/ \E bus \in Buses : BusUnpipe(bus)
    \/ \E bus \in Buses, type \in MsgTypes : BusSendMessage(bus, type)
    \/ \E bus \in Buses : BusEndOfBus(bus)
    \/ BusRunTask

\* =========================================== Aggregator / CombineStreams
\* number of sources registered, most frames of one source, most next() calls
NSources == 2
MaxSourceFrames == 1
MaxNextCalls == 2

AggSources == 1..NSources

AggInitOver(lens, fails) ==
    /\ ag_len \in lens
    /\ ag_fail \in fails
    /\ ag_pos = [s \in AggSources |-> 0]
    /\ ag_src_state = [s \in AggSources |-> "NULL"]
    /\ ag_state = "NULL"
    /\ ag_last_error = "None"
    /\ ag_pull = [s \in AggSources |-> "none"]
    /\ ag_pc = "idle"
    /\ ag_calls = 0

AggInit == AggInitOver([AggSources -> 0..MaxSourceFrames], [AggSources -> BOOLEAN])
AggIdle == AggInitOver({[s \in AggSources |-> 0]}, {[s \in AggSources |-> FALSE]})

AggOthers == <<teeVars, brVars, caVars, qVars, chVars, plVars, skVars, coVars, bsVars,
               lkVars, rdVars>>

\* what the generator of source s gives to its next pull: its frames, then
\* the exception if it raises one, then end-of-stream for ever
AggSourceItem(s) ==
    IF ag_pos[s] < ag_len[s] THEN "frame"
    ELSE IF ag_fail[s] /\ ag_pos[s] = ag_len[s] THEN "error"
    ELSE "eos"

\* BaseElement._set_error of the combinator followed by the unmount() of
\* every source (Aggregator._set_error, CombineStreams._set_error)
AggSetError ==
    /\ ag_state # "ERROR"
    /\ \A s \in AggSources : ag_pull[s] # "pending"
    /\ ag_state' = "ERROR"
    /\ ag_last_error' = "reported"
    /\ ag_src_state' = [s \in AggSources |-> IF ag_src_state[s] = "READY" THEN "NULL"
                                             ELSE ag_src_state[s]]
    /\ UNCHANGED <<ag_len, ag_fail, ag_pos, ag_pull, ag_pc, ag_calls, AggOthers>>

\* next() of the combinator: BaseProducer.__anext__ mounts it on demand
\* (an element in ERROR refuses) and _next_frame starts __anext__() of every
\* source and waits for all of them
AggAnext ==
    /\ ag_pc \in {"idle", "returned", "raised", "ended"}
    /\ ag_calls < MaxNextCalls
    /\ ag_calls' = ag_calls + 1
    /\ IF ag_state = "ERROR"
       THEN /\ ag_pc' = "refused"
            /\ UNCHANGED <<ag_state, ag_pull>>
       ELSE /\ ag_state' = "READY"
            /\ ag_pull' = [s \in AggSources |-> "pending"]
            /\ ag_pc' = "waiting"
    /\ UNCHANGED <<ag_len, ag_fail, ag_pos, ag_src_state, ag_last_error, AggOthers>>

\* __anext__() of source s completes (BaseProducer.__anext__ of the source):
\* it mounts on demand; a frame is returned; at end-of-stream the source
\* unmounts; an exception is sent as element-error and raised, the source
\* stays as it is
AggPullDone(s) ==
    /\ ag_pull[s] = "pending"
    /\ ag_pull' = [ag_pull EXCEPT ![s] = AggSourceItem(s)]
    /\ ag_pos' = [ag_pos EXCEPT ![s] = IF AggSourceItem(s) = "eos" THEN @ ELSE @ + 1]
    /\ ag_src_state' = [ag_src_state EXCEPT ![s] = IF AggSourceItem(s) = "eos" THEN "NULL"
                                                   ELSE "READY"]
    /\ UNCHANGED <<ag_len, ag_fail, ag_state, ag_last_error, ag_pc, ag_calls, AggOthers>>

\* wait() returns once every pull is done and _next_frame takes the results
\* in the order of the set `done`: the first one that raises decides.
\* BaseProducer.__anext__ of the combinator returns the tuple, or unmounts
\* at StopAsyncIteration, or sends element-error and raises
AggWaitDone ==
    /\ ag_pc = "waiting"
    /\ \A s \in AggSources : ag_pull[s] \notin {"none", "pending"}
    /\ \E out \in {"frame", "eos", "error"} :
          /\ IF \A s \in AggSources : ag_pull[s] = "frame" THEN out = "frame"
             ELSE out # "frame" /\ \E s \in AggSources : ag_pull[s] = out
          /\ ag_pc' = CASE out = "frame" -> "returned"
                        [] out = "eos" -> "ended"
                        [] OTHER -> "raised"
          /\ ag_state' = IF out = "eos" THEN "NULL" ELSE ag_state
    /\ ag_pull' = [s \in AggSources |-> "none"]
    /\ UNCHANGED <<ag_len, ag_fail, ag_pos, ag_src_state, ag_last_error, ag_calls, AggOthers>>

AggNext ==
    \/ AggSetError
    \/ AggAnext
    \/ \E s \in AggSources : AggPullDone(s)
    \/ AggWaitDone

\* ------------------------------------------------------- the state lock
\* the tasks that call mount(), unmount() and _set_error() of one element
NTasks == 2
\* the most calls followed
MaxLockCalls == 3

LockTasks == 1..NTasks
\* the guarded sections: those of mount(), unmount() and _set_error()
LockSections == {"mount", "unmount", "error"}

LockInitOver(mountRaises, unmountRaises) ==
    /\ lk_mount_raises \in mountRaises
    /\ lk_unmount_raises \in unmountRaises
    /\ lk_state = "NULL"
    /\ lk_holder = 0
    /\ lk_waiters = <<>>
    /\ lk_pc = [t \in LockTasks |-> "idle"]
    /\ lk_sec = [t \in LockTasks |-> "none"]
    /\ lk_calls = <<>>
    /\ lk_setups = 0
    /\ lk_teardowns = 0
LockInit == LockInitOver(BOOLEAN, BOOLEAN)
LockIdle == LockInitOver({FALSE}, {FALSE})

LockOthers == <<teeVars, brVars, caVars, qVars, chVars, plVars, skVars, coVars, bsVars, agVars,
                rdVars>>

\* Lock.acquire takes the lock at once when nobody holds it and nobody
\* waits for it
LockFreeAlways(holder, waiters) == TRUE
LockFree(holder, waiters) == holder = 0 /\ waiters = <<>>

\* task t has the lock and runs guarded section sec up to its first
\* suspension: each section returns at once, releasing the lock, in the
\* states it has nothing to do in; otherwise mount() runs _mount and the
\* two others run _unmount
LockEnter(t, sec, waiters) ==
    /\ lk_waiters' = waiters
    /\ IF \/ sec = "mount" /\ lk_state # "NULL"
          \/ sec = "unmount" /\ lk_state # "READY"
          \/ sec = "error" /\ lk_state = "ERROR"
       THEN /\ lk_holder' = 0
            /\ lk_pc' = [lk_pc EXCEPT ![t] = "idle"]
            /\ lk_sec' = [lk_sec EXCEPT ![t] = "none"]
            /\ UNCHANGED <<lk_setups, lk_teardowns>>
       ELSE /\ lk_holder' = t
            /\ lk_pc' = [lk_pc EXCEPT ![t] = "inside"]
            /\ lk_sec' = [lk_sec EXCEPT ![t] = sec]
            /\ lk_setups' = lk_setups + (IF sec = "mount" THEN 1 ELSE 0)
            /\ lk_teardowns' = lk_teardowns + (IF sec = "mount" THEN 0 ELSE 1)

\* async with self._state_lock of section sec, when the lock's holder is
\* `holder`: the task goes in, or queues for the lock
LockAcquire(t, sec, holder) ==
    IF LockFree(holder, lk_waiters)
    THEN LockEnter(t, sec, lk_waiters)
    ELSE /\ lk_waiters' = Append(lk_waiters, t)
         /\ lk_pc' = [lk_pc EXCEPT ![t] = "wait"]
         /\ lk_sec' = [lk_sec EXCEPT ![t] = sec]
         /\ lk_holder' = holder
         /\ UNCHANGED <<lk_setups, lk_teardowns>>

\* a task calls mount(), unmount() or _set_error(ex); mount() of an element
\* in ERROR raises RuntimeError before it touches the lock
LockCall(t, sec) ==
    /\ lk_pc[t] = "idle"
    /\ Len(lk_calls) < MaxLockCalls
    /\ lk_calls' = Append(lk_calls, [op |-> sec, state |-> lk_state])
    /\ IF sec = "mount" /\ lk_state = "ERROR"
       THEN UNCHANGED <<lk_holder, lk_waiters, lk_pc, lk_sec, lk_setups, lk_teardowns>>
       ELSE LockAcquire(t, sec, lk_holder)
    /\ UNCHANGED <<lk_mount_raises, lk_unmount_raises, lk_state, LockOthers>>

\* Lock.release woke the first waiter, which now takes the lock
LockGranted(t) ==
    /\ lk_pc[t] = "wait"
    /\ lk_holder = 0
    /\ lk_waiters # <<>> /\ Head(lk_waiters) = t
    /\ LockEnter(t, lk_sec[t], Tail(lk_waiters))
    /\ UNCHANGED <<lk_mount_raises, lk_unmount_raises, lk_state, lk_calls, LockOthers>>

\* _mount or _unmount of the task inside a guarded section ends.  In mount()
\* and unmount() an exception leaves the section, releasing the lock, and
\* the except clause calls _set_error, which takes the lock again; without
\* one the state is set and the lock released.  In _set_error the exception
\* of _unmount is swallowed and the state is ERROR.
LockResume(t) ==
    /\ lk_pc[t] = "inside"
    /\ IF \/ lk_sec[t] = "mount" /\ lk_mount_raises
          \/ lk_sec[t] = "unmount" /\ lk_unmount_raises
       THEN /\ LockAcquire(t, "error", 0)
            /\ UNCHANGED lk_state
       ELSE /\ lk_state' = CASE lk_sec[t] = "mount"   -> "READY"
                             [] lk_sec[t] = "unmount" -> "NULL"
                             [] OTHER                 -> "ERROR"
            /\ lk_holder' = 0
            /\ lk_pc' = [lk_pc EXCEPT ![t] = "idle"]
            /\ lk_sec' = [lk_sec EXCEPT ![t] = "none"]
            /\ UNCHANGED <<lk_waiters, lk_setups, lk_teardowns>>
    /\ UNCHANGED <<lk_mount_raises, lk_unmount_raises, lk_calls, LockOthers>>

LockNext ==
    \/ \E t \in LockTasks, sec \in LockSections : LockCall(t, sec)
    \/ \E t \in LockTasks : LockGranted(t)
    \/ \E t \in LockTasks : LockResume(t)

\* ------------------------------------------ the readers of a producer
\* the tasks that call next() of the producer
NReaders == 3
\* the most next() calls followed
MaxReads == 4

Readers == 1..NReaders
\* the application task, which calls unmount() and never next()
AppTask == 0

ReadersInit ==
    /\ rd_state = "NULL"
    /\ active_tasks = {}
    /\ rd_pc = [t \in Readers |-> "idle"]
    /\ rd_reads = 0
    /\ rd_last = [by |-> AppTask, suspended |-> {}, cancelled |-> {}, n |-> 0]
ReadersIdle == ReadersInit

ReadersOthers == <<teeVars, brVars, caVars, qVars, chVars, plVars, skVars, coVars, bsVars,
                   agVars, lkVars>>

\* the tasks suspended inside next()
ReadersSuspended == {t \in Readers : rd_pc[t] \in {"suspended", "cancelling"}}

\* BaseProducer._unmount: the tasks it calls cancel() on, none of them done
ToCancelNone(tasks, by) == {}
ToCancel(tasks, by) == tasks \ {by}

\* unmount() run by task `by` when the set of active tasks is `tasks`: on a
\* READY producer _unmount cancels and the state becomes NULL
ReadersUnmount(tasks, by, pc) ==
    IF rd_state # "READY"
    THEN UNCHANGED <<rd_state, rd_last>> /\ rd_pc' = pc
    ELSE LET hit == ToCancel(tasks, by)
         IN /\ rd_state' = "NULL"
            /\ rd_pc' = [t \in Readers |-> IF t \in hit THEN "cancelling" ELSE pc[t]]
            /\ rd_last' = [by |-> by, suspended |-> ReadersSuspended \ {by},
                           cancelled |-> hit, n |-> 1]

\* next() is called by task t: the task joins _active_tasks, the producer
\* is mounted if it is not READY, and _next_frame suspends
ReadersAnext(t) ==
    /\ rd_pc[t] = "idle"
    /\ rd_reads < MaxReads
    /\ rd_reads' = rd_reads + 1
    /\ active_tasks' = active_tasks \cup {t}
    /\ rd_state' = "READY"
    /\ rd_pc' = [rd_pc EXCEPT ![t] = "suspended"]
    /\ UNCHANGED <<rd_last, ReadersOthers>>

\* _next_frame of task t returns a frame: the finally clause of __anext__
\* takes the task out of _active_tasks
ReadersFrame(t) ==
    /\ rd_pc[t] = "suspended"
    /\ active_tasks' = active_tasks \ {t}
    /\ rd_pc' = [rd_pc EXCEPT ![t] = "idle"]
    /\ UNCHANGED <<rd_state, rd_reads, rd_last, ReadersOthers>>

\* _next_frame of task t raises StopAsyncIteration: the task leaves
\* _active_tasks and unmounts the producer itself
ReadersEnd(t) ==
    /\ rd_pc[t] = "suspended"
    /\ active_tasks' = active_tasks \ {t}
    /\ ReadersUnmount(active_tasks \ {t}, t, [rd_pc EXCEPT ![t] = "idle"])
    /\ UNCHANGED <<rd_reads, ReadersOthers>>

\* unmount() is called by the application task
ReadersUnmountCall ==
    /\ rd_state = "READY"
    /\ ReadersUnmount(active_tasks, AppTask, rd_pc)
    /\ UNCHANGED <<active_tasks, rd_reads, ReadersOthers>>

\* the cancellation reaches task t: CancelledError leaves __anext__, whose
\* finally clause takes the task out of _active_tasks
ReadersCancelled(t) ==
    /\ rd_pc[t] = "cancelling"
    /\ active_tasks' = active_tasks \ {t}
    /\ rd_pc' = [rd_pc EXCEPT ![t] = "cancelled"]
    /\ UNCHANGED <<rd_state, rd_reads, rd_last, ReadersOthers>>

ReadersNext ==
    \/ \E t \in Readers : ReadersAnext(t)
    \/ \E t \in Readers : ReadersFrame(t)
    \/ \E t \in Readers : ReadersEnd(t)
    \/ ReadersUnmountCall
    \/ \E t \in Readers : ReadersCancelled(t)

\* ------------------------------------------------------ specifications
\* the components added after the Last sink, unused
MoreIdle == BusIdle /\ AggIdle /\ LockIdle /\ ReadersIdle
ElIdle == PlIdle /\ SinkIdle /\ CoIdle /\ MoreIdle
InitTee == TeeInit /\ BranchIdle /\ CacheIdle /\ QueueIdle /\ ChunkIdle /\ ElIdle
SpecTee == InitTee /\ [][TeeNext]_vars

\* C1: every output of the Tee, pulled until end-of-stream, has seen exactly
\* the upstream frames in upstream order: at every moment what an output has
\* seen is a prefix of the upstream sequence, an output that saw
\* end-of-stream has seen all of it, and the outputs never get stuck before
\* all of them have seen end-of-stream.
TeeSameSequence ==
    /\ \A p \in TeeOutputs :
          /\ IsPrefix(tee_obs[p], tee_data)
          /\ tee_pc[p] = "done" => tee_obs[p] = tee_data
    /\ (~ ENABLED TeeNext) => \A p \in TeeOutputs : tee_pc[p] = "done"

TeeSameSequenceWitness ==
    /\ Len(tee_data) = MaxFrames
    /\ \A p \in TeeOutputs : tee_pc[p] = "done" /\ tee_obs[p] = tee_data

InitBranch == BranchInit /\ TeeIdle /\ CacheIdle /\ QueueIdle /\ ChunkIdle /\ ElIdle
SpecBranch == InitBranch /\ [][BranchNext]_vars

\* the upstream frames whose key is k, in upstream order
BranchFramesOf(k) == SelectSeq(br_data, LAMBDA f : branch_func(f) = k)

\* every key the classifier returns on the upstream frames was registered
BranchAllKeysRegistered ==
    \A i \in 1..Len(br_data) : branch_func(br_data[i]) \in br_added

\* C2: when every key the classifier returns is a registered branch and every
\* branch is pulled until end-of-stream, branch K has seen exactly the
\* upstream frames of key K, in upstream order: what it has seen is always a
\* prefix of that subsequence, it is all of it once the branch saw
\* end-of-stream, and the branches never get stuck before that.
BranchRoutesByKey ==
    BranchAllKeysRegistered =>
        /\ \A k \in br_added :
              /\ IsPrefix(br_obs[k], BranchFramesOf(k))
              /\ br_pc[k] = "done" => br_obs[k] = BranchFramesOf(k)
        /\ (~ ENABLED BranchNext) => \A k \in BranchKeys : br_pc[k] = "done"

BranchRoutesByKeyWitness ==
    /\ BranchAllKeysRegistered
    /\ br_added = BranchKeys
    /\ Len(br_data) = MaxFrames
    /\ \A k \in BranchKeys : br_pc[k] = "done" /\ br_obs[k] = BranchFramesOf(k) /\ br_obs[k] # <<>>

InitCache == CacheInit /\ TeeIdle /\ BranchIdle /\ QueueIdle /\ ChunkIdle /\ ElIdle
SpecCache == InitCache /\ [][CacheNext]_vars

\* what every replay of the Cache is to see: the upstream frames, then the
\* fatal error or the end-of-stream the upstream ended with
CacheExpected ==
    [i \in 1..(Len(ca_data) + 1) |->
        IF i <= Len(ca_data) THEN Frame(ca_data[i])
        ELSE IF ca_fail THEN FatalError ELSE EndOfStream]

\* C3: every replay sees the same sequence by index, the upstream frames in
\* upstream order and then the stored end-of-stream or error: what a replay
\* has seen is a prefix of the ledger, the ledger starts with the upstream
\* sequence, a replay that ended has seen all of it, no replay gets stuck,
\* and no step changes or removes a ledger entry already written.
CacheReplayDeterministic ==
    /\ [](/\ \A r \in Replays :
                /\ IsPrefix(cb_obs[r], cached_data)
                /\ IsPrefix(cb_obs[r], CacheExpected)
                /\ cb_pc[r] = "done" => cb_obs[r] = CacheExpected
          /\ (~ ENABLED CacheNext) => \A r \in Replays : cb_pc[r] = "done")
    /\ [][IsPrefix(cached_data, cached_data')]_vars

\* one replay ended before the other started, and both saw the whole sequence
CacheReplayDeterministicWitness ==
    /\ Len(ca_data) = MaxFrames
    /\ \A r \in Replays : cb_pc[r] = "done" /\ cb_obs[r] = CacheExpected
    /\ ca_pulls = MaxFrames + 1

\* C4: get_cached_item is single-flight: at most one replay is inside the
\* upstream pull at any moment; while one is, _next_fut is set and pending;
\* and a requester that waits, waits for the fetch in flight (the future it
\* holds is _next_fut, unless that fetch is over and it is about to resume).
CacheSingleFlight ==
    /\ Cardinality({r \in Replays : cb_pc[r] = "fetching"}) <= 1
    /\ \A r \in Replays : cb_pc[r] = "fetching" =>
          next_fut # 0 /\ ca_heap[next_fut] = "pending"
    /\ \A q \in Replays : cb_pc[q] = "wait_fut" /\ ca_heap[cb_fut[q]] = "pending" =>
          /\ cb_fut[q] = next_fut
          /\ \E r \in Replays : cb_pc[r] = "fetching"

\* a fetch is in flight and another replay waits for it
CacheSingleFlightWitness ==
    \E r, q \in Replays :
        /\ cb_pc[r] = "fetching"
        /\ cb_pc[q] = "wait_fut" /\ cb_fut[q] = next_fut
        /\ cb_idx[q] = Len(cached_data)

\* C5: over an upstream that yields L frames and then end-of-stream, the
\* upstream hands out L frames in total, however many replays there are and
\* whenever they start: never more than L, exactly L once the replays have
\* ended, and the Cache issues L + 1 pulls (the last one finds the end).
CachePullsOnce ==
    ~ ca_fail =>
        /\ ca_handed <= Len(ca_data)
        /\ ca_pulls <= Len(ca_data) + 1
        /\ (\A r \in Replays : cb_pc[r] = "done") =>
               ca_handed = Len(ca_data) /\ ca_pulls = Len(ca_data) + 1

\* a replay that starts after the upstream was consumed and the Cache was
\* unmounted remounts the restarting upstream and still pulls nothing
CachePullsOnceWitness ==
    /\ ~ ca_fail /\ ca_restarts
    /\ Len(ca_data) = MaxFrames
    /\ \A r \in Replays : cb_pc[r] = "done"
    /\ ca_handed = MaxFrames

InitQueue == QueueInit /\ TeeIdle /\ BranchIdle /\ CacheIdle /\ ChunkIdle /\ ElIdle
SpecQueue == InitQueue /\ [][QueueNext]_vars

\* the frames among the items of the queue, in order
QueueBuffered ==
    [i \in 1..Len(SelectSeq(q_queue, LAMBDA x : x.kind = "frame")) |->
        SelectSeq(q_queue, LAMBDA x : x.kind = "frame")[i].val]

\* the frame the loop holds while it is suspended in a put
QueueInPut ==
    IF q_loop_pc = "putting" /\ q_loop_item.kind = "frame" THEN <<q_loop_item.val>> ELSE <<>>

\* C6: every frame the background loop pulled from upstream is delivered to
\* the caller of next() in upstream order before the caller sees
\* end-of-stream: the frames returned so far, followed by the frames still
\* buffered, are exactly the frames pulled so far; a caller that saw
\* end-of-stream got all of them; and the caller is never left waiting with
\* nothing more to come.
QueueDeliversAll ==
    /\ q_obs \o QueueBuffered \o QueueInPut = SubSeq(q_data, 1, q_pos)
    /\ q_pc = "done" => q_obs = q_data
    /\ (~ ENABLED QueueNext) => q_pc = "done"

InitSized ==
    /\ ChunkInitOver({"sized"}, 0..MaxMinSize, 0..MaxMaxSize, {2}, {1}, {<<1>>})
    /\ TeeIdle /\ BranchIdle /\ CacheIdle /\ QueueIdle /\ ElIdle
SpecSized == InitSized /\ [][ChunkNext]_vars

\* C7: a sized-chunks producer never returns a chunk longer than max_size,
\* and a chunk shorter than min_size only as the final chunk of a closed
\* stream: it is the last chunk returned, the sentinel was pushed and nothing
\* is left in the buffer.
SizedChunkBounds ==
    \A i \in 1..Len(ch_chunks) :
        /\ Len(ch_chunks[i]) <= max_size
        /\ Len(ch_chunks[i]) < min_size =>
              i = Len(ch_chunks) /\ ch_closed /\ buffer = <<>>

\* a chunk of max_size, then a final chunk shorter than min_size
SizedChunkBoundsWitness ==
    /\ min_size > 1
    /\ Len(ch_chunks) >= 2
    /\ Len(ch_chunks[1]) = max_size
    /\ Len(ch_chunks[Len(ch_chunks)]) < min_size
    /\ ch_pc = "done"

\* C8: sized chunks lose nothing: the chunks returned so far and the buffer
\* together are the data pushed so far, so that at end-of-stream the chunks
\* are all the data pushed before the sentinel; once the sentinel is pushed
\* next() never waits; and no chunk is empty.
SizedLossless ==
    /\ ch_state = "READY" => Concat(ch_chunks) \o buffer = ch_pushed
    /\ ch_pc = "done" => Concat(ch_chunks) = ch_pushed
    /\ ch_closed => ch_pc # "waiting"
    /\ \A i \in 1..Len(ch_chunks) : ch_chunks[i] # <<>>

\* the stream ended after data left over at the sentinel was drained in
\* more than one chunk
SizedLosslessWitness ==
    /\ ch_pc = "done"
    /\ Len(ch_pushed) = MaxPushed
    /\ Len(ch_chunks) >= 2
    /\ Len(ch_chunks[Len(ch_chunks)]) < min_size

InitSeparator ==
    /\ ChunkInitOver({"separator"}, {1}, {1}, {2}, {1}, {<<1>>, <<1, 2>>, <<1, 1>>})
    /\ TeeIdle /\ BranchIdle /\ CacheIdle /\ QueueIdle /\ ElIdle
SpecSeparator == InitSeparator /\ [][ChunkNext]_vars

\* the chunk ends with the separator and holds no other occurrence of it
EndsWithSeparator(chunk) ==
    /\ Len(chunk) >= Len(separator)
    /\ \A i \in 1..(Len(chunk) - Len(separator) + 1) :
          SubSeq(chunk, i, i + Len(separator) - 1) = separator
              <=> i = Len(chunk) - Len(separator) + 1

\* C9: separator chunks round-trip: the chunks returned so far and the
\* buffer together are the data pushed so far, and at end-of-stream the
\* chunks are all of it; every chunk but the last ends with the separator
\* and holds no earlier occurrence of it; the last chunk does too, or it is
\* the non-empty leftover of a closed stream, after which nothing is left;
\* and the caller never waits while the buffer holds a separator, also one
\* that came in two frames.
SeparatorRoundTrip ==
    /\ ch_state = "READY" => Concat(ch_chunks) \o buffer = ch_pushed
    /\ ch_pc = "done" => Concat(ch_chunks) = ch_pushed
    /\ \A i \in 1..(Len(ch_chunks) - 1) : EndsWithSeparator(ch_chunks[i])
    /\ ch_chunks # <<>> =>
          \/ EndsWithSeparator(ch_chunks[Len(ch_chunks)])
          \/ /\ ch_chunks[Len(ch_chunks)] # <<>>
             /\ ~ Contains(separator, ch_chunks[Len(ch_chunks)])
             /\ ch_closed /\ buffer = <<>>
    /\ ch_pc = "waiting" => ~ ch_closed /\ ~ Contains(separator, buffer)

\* a two-byte separator pushed in two frames ended the first chunk, and the
\* stream ended with a leftover chunk
SeparatorRoundTripWitness ==
    /\ separator = <<1, 2>>
    /\ ch_frames = <<<<2, 1>>, <<2, 2>>>>
    /\ ch_chunks = <<<<2, 1, 2>>, <<2>>>>
    /\ ch_pc = "done"

InitSlowStart ==
    /\ ChunkInitOver({"slowstart"}, 0..MaxMinSize, 0..MaxMaxSize, 1..5, 1..2, {<<1>>})
    /\ TeeIdle /\ BranchIdle /\ CacheIdle /\ QueueIdle /\ ElIdle
SpecSlowStart == InitSlowStart /\ [][ChunkNext]_vars

\* C10: a chunk request that comes less than interval after the previous one
\* leaves the running min size at least as large as it was, and a request
\* that comes later leaves it at most as large as it was.
SlowStartMonotone ==
    /\ ch_req.kind = "fast" => ch_req.after >= ch_req.before
    /\ ch_req.kind = "slow" => ch_req.after <= ch_req.before

\* the slow-start producer under any sequence of fast and slow requests,
\* pushes, unmounts and remounts
SpecSlowStartRemount == InitSlowStart /\ [][ChunkRemountNext]_vars

\* C11: the running min size of a slow-start producer always lies between
\* the initial min size and max_size, and the first chunk request after a
\* mount leaves it at the initial min size.
SlowStartClamped ==
    /\ initial_min_size <= min_size /\ min_size <= max_size
    /\ ch_req.nth = 1 => min_size = initial_min_size

\* a producer that has grown its min size is unmounted, mounted again and
\* asked for a chunk
SlowStartClampedWitness ==
    /\ ch_req.nth = 1
    /\ ch_req.before > initial_min_size
    /\ ch_req.after = initial_min_size
    /\ ch_state = "READY"

\* the pipeline under mount(), unmount(), error reports and next() in any order
InitLifecycle ==
    /\ PlInitOver(0..NStages, {"list", "failing"}, SeqsUpTo(FrameVals, 1),
                  [PlElems -> BOOLEAN], {[e \in PlStages |-> "none"]},
                  {[e \in PlStages |-> FALSE]})
    /\ TeeIdle /\ BranchIdle /\ CacheIdle /\ QueueIdle /\ ChunkIdle /\ SinkIdle /\ CoIdle /\ MoreIdle
SpecLifecycle == InitLifecycle /\ [][PlNext]_vars

\* C12: an element in ERROR stays in ERROR with the last_error it has, whatever
\* is called later; mount() on it raises 'Element has an error' and unmount()
\* on it returns, and neither changes any element or sends a message.
ErrorIsTerminal ==
    /\ [][\A e \in PlElems :
             pl_state[e] = "ERROR" =>
                 /\ pl_state'[e] = "ERROR"
                 /\ pl_last_error'[e] = pl_last_error[e]]_vars
    /\ [][\A e \in PlElems :
             (pl_state[e] = "ERROR" /\ pl_last'.elem = e /\ pl_last'.op \in {"mount", "unmount"}) =>
                 /\ pl_last'.raised = (IF pl_last'.op = "mount" THEN HasError(e) ELSE NoError)
                 /\ pl_emitted' = <<>>
                 /\ UNCHANGED <<pl_state, pl_last_error, pl_pos, pl_failed>>]_vars

\* a stage that was READY over a READY source got an error reported, and
\* mount() was then called on it: it raised and the source stayed unmounted
ErrorIsTerminalWitness ==
    /\ pl_last.op = "mount" /\ pl_last.elem = 1 /\ pl_n >= 1
    /\ pl_last.state[1] = "ERROR"
    /\ pl_last.raised = HasError(1)
    /\ pl_last_error[1] = Reported(1)
    /\ pl_has_source[0] /\ pl_has_source[1]
    /\ pl_state[0] = "NULL"

\* the messages of one type an element sent during the last call
PlEmittedBy(emitted, e, types) ==
    SelectSeq(emitted, LAMBDA m : m.sender = e /\ m.type \in types)

\* the state the element-ready and element-null messages of msgs lead to from
\* state s, "?" if one of them does not fit the state it is sent in
RECURSIVE PlFollow(_, _)
PlFollow(s, msgs) ==
    IF msgs = <<>> THEN s
    ELSE IF Head(msgs).type = "element-ready" /\ s = "NULL" THEN PlFollow("READY", Tail(msgs))
    ELSE IF Head(msgs).type = "element-null" /\ s = "READY" THEN PlFollow("NULL", Tail(msgs))
    ELSE "?"

\* C13: mount() on a READY element and unmount() on a NULL element change
\* nothing and send no message; and during any call the element-ready and
\* element-null messages of an element with a bus are exactly its
\* transitions from NULL to READY and from READY to NULL, one message each.
MountUnmountIdempotent ==
    /\ [][\A e \in PlElems :
             \/ pl_last'.elem # e
             \/ ~ \/ pl_last'.op = "mount" /\ pl_state[e] = "READY"
                  \/ pl_last'.op = "unmount" /\ pl_state[e] = "NULL"
             \/ /\ pl_emitted' = <<>>
                /\ pl_last'.raised = NoError
                /\ UNCHANGED <<pl_state, pl_last_error, pl_pos, pl_failed>>]_vars
    /\ [][\A e \in PlElems :
             PlHasBus(e) =>
                 LET after == PlFollow(pl_state[e],
                                       PlEmittedBy(pl_emitted', e, {"element-ready", "element-null"}))
                 IN IF pl_state'[e] = "ERROR" THEN after # "?"
                    ELSE after = pl_state'[e]]_vars

\* mount() was called on a READY stage whose source had been unmounted
\* apart, and the source stayed unmounted
MountUnmountIdempotentWitness ==
    /\ pl_last.op = "mount" /\ pl_last.elem = 1 /\ pl_n >= 1
    /\ pl_last.state[1] = "READY" /\ pl_last.state[0] = "NULL"
    /\ pl_state[1] = "READY" /\ pl_state[0] = "NULL"
    /\ pl_emitted = <<>>

\* the last call was a mount() whose subclass setup raised
PlMountFailed ==
    /\ pl_last.op = "mount"
    /\ pl_last.raised # NoError
    /\ pl_last.state[pl_last.elem] # "ERROR"

\* the last call sent element-error with the exception it raised, in the name
\* of the element it was made on
PlErrorAnnounced ==
    \E i \in DOMAIN pl_emitted :
        pl_emitted[i] = [sender |-> pl_last.elem, type |-> "element-error",
                         ex |-> pl_last.raised]

\* C14 as stated: when the setup of mount() raises, the element is in ERROR
\* with last_error the raised exception, and element-error with that
\* exception has been sent on the element's bus.
MountFailureAnnounced ==
    PlMountFailed =>
        /\ pl_state[pl_last.elem] = "ERROR"
        /\ pl_last_error[pl_last.elem] = pl_last.raised
        /\ PlErrorAnnounced

\* C14, amended: when the setup of mount() raises, the element is in ERROR
\* with last_error the raised exception; element-error with that exception
\* has been sent if the element has a bus, and no message at all is sent by
\* an element without one (a consumer whose chain of sources is not set).
MountFailureRecorded ==
    PlMountFailed =>
        /\ pl_state[pl_last.elem] = "ERROR"
        /\ pl_last_error[pl_last.elem] = pl_last.raised
        /\ PlHasBus(pl_last.elem) => PlErrorAnnounced
        /\ ~ PlHasBus(pl_last.elem) =>
               \A i \in DOMAIN pl_emitted : pl_emitted[i].sender # pl_last.elem

\* mount() of a stage over a SyncSource without source: the exception of the
\* source went through both, and both announced it
MountFailureRecordedWitness ==
    /\ PlMountFailed
    /\ pl_last.elem = 1 /\ pl_n >= 1
    /\ pl_last.raised = NotSourceSet(0)
    /\ pl_state[0] = "ERROR" /\ pl_state[1] = "ERROR"
    /\ pl_last_error[1] = NotSourceSet(0)
    /\ Len(PlEmittedBy(pl_emitted, 1, {"element-error"})) = 1
    /\ Len(PlEmittedBy(pl_emitted, 0, {"element-error"})) = 1

\* whole pipelines (every source set) over lists and generators, with map
\* functions that raise on some frames, with and without skip_errors
InitPipeline ==
    /\ PlInitOver(0..NStages, {"list", "generator", "failing"},
                  SeqsUpTo(FrameVals, MaxFrames - 1),
                  {[e \in PlElems |-> TRUE]},
                  [PlStages -> {"none", "even"}], [PlStages -> BOOLEAN])
    /\ TeeIdle /\ BranchIdle /\ CacheIdle /\ QueueIdle /\ ChunkIdle /\ SinkIdle /\ CoIdle /\ MoreIdle
SpecPipeline == InitPipeline /\ [][PlRunNext]_vars

\* C15: when next() on the last element raises an exception that a generator
\* or a map function upstream raised, the element it came from and every
\* stage after it are in ERROR with that exception as last_error.
FatalErrorMarksElements ==
    (pl_last.op = "next" /\ pl_last.raised.exc = "ValueError") =>
        \A e \in PlElems :
            (pl_last.raised.of <= e /\ e <= pl_n) =>
                /\ pl_state[e] = "ERROR"
                /\ pl_last_error[e] = pl_last.raised

\* C17: when next() on the last stage of a pipeline signals end-of-stream,
\* every element of the pipeline is NULL and has sent element-null during
\* that call, and the call raised no error and announced none.
CleanTermination ==
    (pl_last.op = "next" /\ pl_out[Len(pl_out)].kind = "eos") =>
        /\ pl_last.raised = NoError
        /\ \A e \in 0..pl_n :
              /\ pl_state[e] = "NULL"
              /\ Len(PlEmittedBy(pl_emitted, e, {"element-null"})) = 1
              /\ PlEmittedBy(pl_emitted, e, {"element-error"}) = <<>>

\* a source and two stages gave a frame and then end-of-stream
CleanTerminationWitness ==
    /\ pl_n = NStages /\ pl_kind = "list"
    /\ pl_last.op = "next"
    /\ Len(pl_out) = 2
    /\ pl_out[1].kind = "frame" /\ pl_out[2].kind = "eos"
    /\ \A e \in PlElems : pl_last.state[e] = "READY" /\ pl_state[e] = "NULL"

\* C18: once next() has signalled end-of-stream, every later next() on the
\* same producer signals end-of-stream again and pulls nothing.
EndOfStreamIsPermanent ==
    \A i \in 1..(Len(pl_out) - 1) :
        pl_out[i].kind = "eos" => pl_out[i + 1].kind = "eos"

\* the frames a sequence of next() outcomes returned
PlFramesOf(outs) ==
    LET frames == SelectSeq(outs, LAMBDA o : o.kind = "frame")
    IN [i \in 1..Len(frames) |-> frames[i].val]

\* what becomes of source frame x on its way through stages e..pl_n: the
\* stage at which the map function raises (0 if none does) and the result
RECURSIVE PlThrough(_, _)
PlThrough(e, x) ==
    IF e > pl_n THEN [dies |-> 0, val |-> x]
    ELSE IF PlMapRaises(e, x) THEN [dies |-> e, val |-> x]
    ELSE PlThrough(e + 1, map_func(x))

\* the results of the source frames that no map function raised on
PlSurvivors(pulled) ==
    LET alive == SelectSeq(pulled, LAMBDA x : PlThrough(1, x).dies = 0)
    IN [i \in 1..Len(alive) |-> PlThrough(1, alive[i]).val]

\* C19: next() never ends with the skip signal; during every call each stage
\* sends exactly one frame-skipped message per frame its map function
\* raised on under skip_errors; and the frames returned so far are the
\* results of the frames no map function raised on, in the order sourced.
SkipNeverSurfaced ==
    /\ [](\A i \in DOMAIN pl_out : pl_out[i].kind # "skip")
    /\ [](PlFramesOf(pl_out) = PlSurvivors(pl_pulled))
    /\ [][\A e \in PlStages :
             LET new == SubSeq(pl_pulled', Len(pl_pulled) + 1, Len(pl_pulled'))
                 skipped == SelectSeq(new, LAMBDA x : PlThrough(1, x).dies = e /\ pl_skip_errors[e])
             IN Len(PlEmittedBy(pl_emitted', e, {"frame-skipped"})) = Len(skipped)]_vars

\* a map that fails on even values with skip_errors, over [2, 1]: one call
\* of next() skipped 2 with one message and returned the result of 1
SkipNeverSurfacedWitness ==
    /\ pl_n = 1 /\ pl_bad[1] = "even" /\ pl_skip_errors[1]
    /\ pl_data = <<2, 1>>
    /\ pl_out = <<PlFrame(map_func(1))>>
    /\ Len(PlEmittedBy(pl_emitted, 1, {"frame-skipped"})) = 1
    /\ pl_state[1] = "READY"

\* a Last sink over whole pipelines
InitSink ==
    /\ PlInitOver(0..NStages, {"list", "generator", "failing"},
                  SeqsUpTo(FrameVals, MaxFrames - 1),
                  {[e \in PlElems |-> TRUE]},
                  [PlStages -> {"none", "even"}], [PlStages -> BOOLEAN])
    /\ SinkIdle /\ CoIdle /\ MoreIdle
    /\ TeeIdle /\ BranchIdle /\ CacheIdle /\ QueueIdle /\ ChunkIdle
SpecSink == InitSink /\ [][SinkNext]_vars

\* C16: when the upstream of the sink raises a fatal exception, _frame_fut
\* holds that exception, so get_frame() raises it, and whenever get_frame()
\* raises it the sink is in ERROR.
SinkFailure ==
    /\ (pl_last.op = "next" /\ pl_last.raised.exc = "ValueError") =>
           /\ sk_frame_fut = FutRaising(pl_last.raised)
           /\ sk_state = "ERROR"
           /\ sk_last_error = pl_last.raised
    /\ \A i \in DOMAIN sk_obs :
           (sk_obs[i].out.st = "exception" /\ sk_obs[i].out.ex.exc = "ValueError") =>
               sk_obs[i].state = "ERROR"

\* a generator yielded a frame and raised; get_frame() raised its exception
SinkFailureWitness ==
    /\ pl_kind = "failing" /\ Len(pl_pulled) >= 1
    /\ sk_obs = <<[out |-> FutRaising(SourceError), state |-> "ERROR"]>>
    /\ sk_pc = "idle"

\* elements composed, mounted, unmounted and composed again
InitCompose ==
    /\ CoInit /\ PlIdle /\ SinkIdle /\ MoreIdle
    /\ TeeIdle /\ BranchIdle /\ CacheIdle /\ QueueIdle /\ ChunkIdle
SpecCompose == InitCompose /\ [][CoNext]_vars

\* the last operator was applied to a Producer a and a Consumer b
CoFits == co_last.op \in {">>", "<<"} /\ IsProducer(co_last.a) /\ IsConsumer(co_last.b)

\* the last operator was applied to two Producer-only or two Consumer-only
\* elements
CoSameSide ==
    /\ co_last.op \in {">>", "<<"}
    /\ \/ ~ IsConsumer(co_last.a) /\ ~ IsConsumer(co_last.b)
       \/ ~ IsProducer(co_last.a) /\ ~ IsProducer(co_last.b)

\* the last operator raised TypeError and changed no source
CoRefused == co_last.raised = "TypeError" /\ co_last.changed = {}

\* C20 as stated: a >> b and b << a for a Producer a and a Consumer b set
\* b.source to a and return b; for two Producer-only or two Consumer-only
\* elements they raise TypeError and change no source.
ComposeSetsSource ==
    /\ CoFits =>
           /\ co_source[co_last.b] = co_last.a
           /\ co_last.returned = co_last.b
           /\ co_last.raised = "None"
    /\ CoSameSide => CoRefused

\* C20, amended: the same when b is not READY or has a as its source already;
\* when b is READY with another source, RuntimeError is raised and no source
\* changes.
ComposeSetsSourceUnlessReady ==
    /\ CoFits =>
           IF co_last.ready /\ co_last.before # co_last.a
           THEN /\ co_last.raised = "RuntimeError"
                /\ co_last.changed = {}
                /\ co_source[co_last.b] = co_last.before
           ELSE /\ co_source[co_last.b] = co_last.a
                /\ co_last.returned = co_last.b
                /\ co_last.raised = "None"
                /\ co_last.changed \subseteq {co_last.b}
    /\ CoSameSide => CoRefused

\* source >> stage, then stage >> sink; the sink, mounted, refuses source2
ComposeSetsSourceUnlessReadyWitness ==
    /\ co_source["stage"] = "source"
    /\ co_source["sink"] = "stage"
    /\ co_state["sink"] = "READY"
    /\ co_last.op = ">>" /\ co_last.a = "source2" /\ co_last.b = "sink"
    /\ co_last.raised = "RuntimeError"

\* C21: a Queue with queue_size = N >= 1 never buffers more than N items; the
\* background loop suspends in push exactly when N items are buffered, stays
\* suspended while they are, and leaves the push only once a pop has made
\* room, so it has pulled at
\* most N + 1 frames more than next() has returned; and a next() suspended
\* on an empty open queue stays suspended until an item is pushed.
QueueBackpressure ==
    /\ [](queue_size >= 1 =>
            /\ Len(q_queue) <= queue_size
            /\ q_pos <= Len(q_obs) + queue_size + 1)
    /\ [][(queue_size >= 1 /\ q_loop_pc # "putting" /\ q_loop_pc' = "putting") =>
              (Len(q_queue) = queue_size /\ q_queue' = q_queue)]_vars
    /\ [][(queue_size >= 1 /\ q_loop_pc = "putting" /\ q_loop_pc' # "putting") =>
              (Len(q_queue) < queue_size /\ q_queue' = Append(q_queue, q_loop_item))]_vars
    /\ [][(queue_size >= 1 /\ Len(q_queue) = queue_size /\ q_loop_pc = "putting") =>
              (q_loop_pc' = "putting" /\ q_pos' = q_pos)]_vars
    /\ [][(q_pc = "getting" /\ q_open /\ q_queue = <<>>) =>
              (q_pc' = "getting" /\ q_obs' = q_obs)]_vars

\* the caller has popped a frame, the queue is full again and the loop is
\* suspended in push with one more frame, N + 1 = 2 frames ahead
QueueBackpressureWitness ==
    /\ queue_size = 1
    /\ q_loop_pc = "putting"
    /\ Len(q_queue) = queue_size
    /\ Len(q_obs) >= 1
    /\ q_pos = Len(q_obs) + queue_size + 1

\* a Queue whose upstream raises after its frames
InitQueueFail ==
    /\ QueueInitOver(SeqsUpTo(FrameVals, MaxFrames), 0..MaxQueueSize, {TRUE})
    /\ TeeIdle /\ BranchIdle /\ CacheIdle /\ ChunkIdle /\ ElIdle
SpecQueueFail == InitQueueFail /\ [][QueueNext]_vars

\* C22: when the upstream of a Queue yields k frames and then raises, the
\* caller of next() receives exactly those k frames in order and then the
\* exception: the exception is never raised ahead of a frame, the stream
\* never ends cleanly instead, and the caller is never left waiting for an
\* exception that will not come.
QueueErrorOrdering ==
    /\ IsPrefix(q_obs, q_data)
    /\ q_pc = "raised" => q_obs = q_data
    /\ q_pc # "done"
    /\ (~ ENABLED QueueNext) => q_pc = "raised"

\* buses piped, unpiped and ended while messages are sent on them
InitBus ==
    /\ BusInit /\ AggIdle /\ LockIdle /\ ReadersIdle /\ PlIdle /\ SinkIdle /\ CoIdle
    /\ TeeIdle /\ BranchIdle /\ CacheIdle /\ QueueIdle /\ ChunkIdle
SpecBus == InitBus /\ [][BusNext]_vars

\* the same with B piped into A once
SpecBusOnce == InitBus /\ [][BusOnceNext]_vars

\* the bridges registered in A._consumers that forward from src
BusBridgesFrom(src) == {i \in BusConsumers(BusNow, "A") : bs_bridges[i].src = src}

\* C23: Bus.pipe is idempotent: a bus holds at most one bridging consumer per
\* source bus, so a message reaches the handler of A once however often
\* A.pipe(B) was called; A.pipe(A) builds no bridge.
BusPipeIdempotent ==
    /\ \A src \in Buses : Cardinality(BusBridgesFrom(src)) <= 1
    /\ \A i, j \in 1..Len(bs_got["A"]) : bs_got["A"][i] = bs_got["A"][j] => i = j
    /\ \A i \in 1..Len(bs_bridges) : bs_bridges[i].src # bs_bridges[i].dst

\* C24: after A.pipe(B) followed by A.unpipe(B) no bridge from B is left in
\* A, the bridging consumers are unmounted once the event loop has run, and
\* no message sent on B afterwards reaches the handler of A.
BusUnpipeTearsDown ==
    /\ (bs_calls.piped /\ bs_calls.unpiped) =>
          /\ BusBridgesFrom("B") = {}
          /\ bs_ready = <<>> =>
                \A i \in 1..Len(bs_bridges) : bs_bridges[i].state # "READY"
    /\ \A k \in 1..Len(bs_sent) :
          (bs_sent[k].msg.sender = "B" /\ bs_sent[k].piped /\ bs_sent[k].unpiped) =>
              \A n \in 1..Len(bs_got["A"]) : bs_got["A"][n] # bs_sent[k].msg

\* the messages sent on B that went to the handler of A
BusGotFromB == SelectSeq(bs_got["A"], LAMBDA m : m.sender = "B")

\* the messages among those sent that the predicate keeps
BusSentWhere(Keep(_)) ==
    LET s == SelectSeq(bs_sent, Keep)
    IN [k \in 1..Len(s) |-> s[k].msg]

\* C25 as stated: after one A.pipe(B), every message sent on B afterwards
\* that the filter of A allows goes to the handler of A, in the order sent
\* (all of them once the event loop has run), and no message sent on A goes
\* to the handler of B.
BusForwardsOneWay ==
    LET expected == BusSentWhere(LAMBDA s : s.msg.sender = "B" /\ s.piped
                                            /\ Allow(bs_filter["A"], s.msg))
    IN /\ IsPrefix(BusGotFromB, expected)
       /\ bs_ready = <<>> => BusGotFromB = expected
       /\ \A n \in 1..Len(bs_got["B"]) : bs_got["B"][n].sender # "A"

\* C25, amended: the same for the messages sent on B after A.pipe(B) and
\* before the next B.end_of_bus(); those sent on B after it are not forwarded.
BusForwardsUntilEnd ==
    LET expected == BusSentWhere(LAMBDA s : s.msg.sender = "B" /\ s.piped /\ ~ s.ended
                                            /\ Allow(bs_filter["A"], s.msg))
    IN /\ IsPrefix(BusGotFromB, expected)
       /\ bs_ready = <<>> => BusGotFromB = expected
       /\ \A n \in 1..Len(bs_got["B"]) : bs_got["B"][n].sender # "A"

\* A.pipe(B), then a message on B that is forwarded, then B.end_of_bus() and
\* a message on B that is not
BusForwardsUntilEndWitness ==
    /\ Len(bs_bridges) = 1
    /\ bs_ready = <<>>
    /\ Len(bs_sent) = 2
    /\ bs_sent[1].msg.sender = "B" /\ bs_sent[1].piped /\ ~ bs_sent[1].ended
    /\ bs_sent[2].msg.sender = "B" /\ bs_sent[2].ended
    /\ BusGotFromB = <<bs_sent[1].msg>>
    /\ bs_got["B"] = <<bs_sent[1].msg, bs_sent[2].msg>>

\* a combinator over generator sources, some of which raise
InitAggregator ==
    /\ AggInit /\ BusIdle /\ LockIdle /\ ReadersIdle /\ PlIdle /\ SinkIdle /\ CoIdle
    /\ TeeIdle /\ BranchIdle /\ CacheIdle /\ QueueIdle /\ ChunkIdle
SpecAggregator == InitAggregator /\ [][AggNext]_vars

\* C26: when the pull of a source raises a fatal exception during next(),
\* the combinator is in ERROR and every source is unmounted, none with a
\* pull in flight, by the time the exception reaches the caller.
AggregatorFailure ==
    ag_pc = "raised" =>
        /\ ag_state = "ERROR"
        /\ \A s \in AggSources : ag_src_state[s] # "READY" /\ ag_pull[s] # "pending"

\* a Branch whose on_unknown_branch callback raises
InitBranchUnknown ==
    /\ BranchInitOver(SeqsUpTo(BranchFrameVals, MaxFrames), (SUBSET BranchKeys) \ {{}}, {"raises"})
    /\ TeeIdle /\ CacheIdle /\ QueueIdle /\ ChunkIdle /\ ElIdle
SpecBranchUnknown == InitBranchUnknown /\ [][BranchNext]_vars

\* C27: when on_unknown_branch raises for the frames whose key has no branch,
\* those frames are delivered to no branch, no branch is registered for
\* their keys, and dispatch goes on: every registered branch sees the upstream
\* frames of its key, in order, all of them once it saw end-of-stream, and the
\* branches never get stuck before that.
BranchUnknownDropped ==
    /\ br_branches \subseteq br_added
    /\ \A k \in BranchKeys \ br_added : br_obs[k] = <<>>
    /\ \A k \in br_added :
          /\ IsPrefix(br_obs[k], BranchFramesOf(k))
          /\ br_pc[k] = "done" => br_obs[k] = BranchFramesOf(k)
    /\ (~ ENABLED BranchNext) => \A k \in BranchKeys : br_pc[k] = "done"

\* a frame of an unregistered key came between two frames of the registered
\* branch, which has seen both and the end-of-stream
BranchUnknownDroppedWitness ==
    /\ \E k \in BranchKeys :
          /\ br_added = {k}
          /\ br_pc[k] = "done"
          /\ Len(br_obs[k]) = 2
          /\ Len(br_data) = 3
          /\ branch_func(br_data[2]) # k

\* no element of the pipeline raises a fatal exception: the source does not
\* fail and every stage whose map function raises skips those frames
PlNoFatal ==
    /\ pl_kind # "failing"
    /\ \A e \in 1..pl_n : pl_bad[e] # "none" => pl_skip_errors[e]

\* what get_frame() of a Last sink is to end with: the last frame the
\* upstream yields, or ValueError() when it yields none
LastOutcome ==
    LET yielded == PlSurvivors(pl_data)
    IN IF yielded = <<>> THEN FutRaising(EmptyStream)
       ELSE FutOf(yielded[Len(yielded)])

\* C28: over an upstream that ends without a fatal exception, every
\* get_frame() call of a Last sink ends with the final frame the upstream
\* yielded before end-of-stream, or raises ValueError() when the upstream
\* yielded no frame; later calls end the same way, whatever ran in between,
\* and while a call waits the loop of the sink is running.
LastYieldsFinalFrame ==
    PlNoFatal =>
        /\ \A i \in DOMAIN sk_obs : sk_obs[i].out = LastOutcome
        /\ sk_frame_fut.st \notin {"none", "pending"} => sk_frame_fut = LastOutcome
        /\ (sk_pc = "waiting" /\ sk_frame_fut.st = "pending") =>
               (sk_loop \in {"scheduled", "pulling"} /\ sk_state = "READY")

\* two calls got the last of two frames, the second after the sink was
\* unmounted by the task its loop scheduled
LastYieldsFinalFrameWitness ==
    /\ PlNoFatal
    /\ Len(PlSurvivors(pl_data)) = 2
    /\ Len(sk_obs) = 2
    /\ sk_obs[1] = [out |-> LastOutcome, state |-> "READY"]
    /\ sk_obs[2] = [out |-> LastOutcome, state |-> "NULL"]

\* tasks calling mount(), unmount() and _set_error() of one element
InitLock ==
    /\ LockInit /\ BusIdle /\ AggIdle /\ ReadersIdle /\ PlIdle /\ SinkIdle /\ CoIdle
    /\ TeeIdle /\ BranchIdle /\ CacheIdle /\ QueueIdle /\ ChunkIdle
SpecLock == InitLock /\ [][LockNext]_vars

\* the tasks suspended inside a guarded section
LockInside == {t \in LockTasks : lk_pc[t] = "inside"}
\* every call so far was a mount() of the element in NULL, and all returned
LockMountsDone ==
    /\ lk_calls # <<>>
    /\ \A i \in DOMAIN lk_calls : lk_calls[i] = [op |-> "mount", state |-> "NULL"]
    /\ \A t \in LockTasks : lk_pc[t] = "idle"

TeeOutstanding(c) == tee_futs[c] # 0 /\ tee_heap[tee_futs[c]].st = "pending"

\* C30: while the upstream is being pulled for the Tee, every attached output
\* has an outstanding request; the frame a pull returns resolves the request
\* of every attached output and leaves none outstanding; and no output has
\* received frame i+1 while another has not received frame i.
TeeGating ==
    /\ [](\A p \in TeeOutputs :
             tee_pc[p] = "pulling" => \A c \in tee_consumers : TeeOutstanding(c))
    /\ [][tee_pos' = tee_pos + 1 =>
             /\ \A c \in tee_consumers :
                   /\ TeeOutstanding(c)
                   /\ tee_heap'[tee_futs[c]] = FutResult(tee_data[tee_pos + 1])
             /\ TeeFutKeys(tee_futs') = {}]_vars
    /\ [](\A p, q \in TeeOutputs : Len(tee_obs[p]) <= Len(tee_obs[q]) + 1)

\* the second pull is under way: every output has received the first frame
\* and asked for the next
TeeGatingWitness ==
    /\ tee_pos = 1
    /\ \E p \in TeeOutputs : tee_pc[p] = "pulling"
    /\ \A c \in TeeOutputs : Len(tee_obs[c]) = 1 /\ c \in tee_consumers /\ TeeOutstanding(c)

\* key c of the Branch has a request that is not yet satisfied
BranchOutstanding(c) == br_futs[c] # 0 /\ br_heap[br_futs[c]].st = "pending"

SpecQueueTeardown == InitQueue /\ [][QueueTeardownNext]_vars

\* C32: when unmount() of a Queue with a running loop returns, the task of
\* the loop has finished; and once the element is unmounted no pull of
\* that loop is in flight.
QueueTeardownWaits ==
    [][(q_state = "READY" /\ q_state' = "NULL") =>
           /\ consumer_fut' # "running"
           /\ q_loop_pc' \in {"none", "ended"}]_vars

\* the loop has pulled the upstream's fatal exception and handed it to
\* push_frame
QueueLoopGotError ==
    /\ q_fail
    /\ q_pos = Len(q_data) + 1
    /\ ~ (q_loop_pc = "putting" /\ q_loop_item = FatalError)

\* C33: once the loop has pulled a fatal exception and delivered it through
\* push_frame, the element is in ERROR and the loop has ended: it never
\* pulls the upstream again.  After end-of-stream the loop ends too, and the
\* end sentinel was delivered.
QueueLoopFailure ==
    /\ QueueLoopGotError => (q_state = "ERROR" /\ q_loop_pc = "ended")
    /\ (~ q_fail /\ q_loop_pc = "ended") => (~ q_open /\ q_state # "ERROR")

\* chunk producers whose loop is handed a fatal exception by its upstream
InitChunkFail ==
    /\ ChunkInitOver({"sized", "slowstart", "separator"}, {1}, {2}, {2}, {1}, {<<1>>})
    /\ TeeIdle /\ BranchIdle /\ CacheIdle /\ QueueIdle /\ ElIdle
SpecChunkFail == InitChunkFail /\ [][ChunkFailNext]_vars

\* C34: after the loop handed a fatal exception of the upstream to
\* push_frame, the caller of next() does not see a clean end-of-stream.
ChunkFatalSurfaces == ~ (ch_error /\ ch_pc = "done")

\* tasks reading one producer while it is unmounted
InitReaders ==
    /\ ReadersInit /\ BusIdle /\ AggIdle /\ LockIdle /\ PlIdle /\ SinkIdle /\ CoIdle
    /\ TeeIdle /\ BranchIdle /\ CacheIdle /\ QueueIdle /\ ChunkIdle
SpecReaders == InitReaders /\ [][ReadersNext]_vars

InitRemoval ==
    /\ \/ TeeInit /\ BranchIdle
       \/ TeeIdle /\ BranchInit
    /\ CacheIdle /\ QueueIdle /\ ChunkIdle /\ ElIdle
RemovalNext ==
    \/ br_data = <<>> /\ TeeRemovalNext
    \/ tee_data = <<>> /\ BranchRemovalNext
SpecRemoval == InitRemoval /\ [][RemovalNext]_vars

\* an output's task is inside request_frame
TeeRequesting(p) == tee_pc[p] \in {"pulling", "wait_fut"}
BranchRequesting(k) == br_pc[k] \in {"pulling", "wait_fut"}

TeeRemovalEnds ==
    /\ [](\A c \in TeeOutputs : TeeOutstanding(c) => c \in tee_consumers)
    /\ [][/\ \A c \in TeeOutputs :
               (c \in tee_consumers /\ c \notin tee_consumers' /\ TeeOutstanding(c))
                   => tee_heap'[tee_futs[c]] = FutEndOfStream
          /\ \A p \in TeeOutputs :
               (TeeRequesting(p) /\ tee_heap[tee_fut[p]] = FutEndOfStream /\ tee_pc'[p] # tee_pc[p])
                   => (tee_pc'[p] = "done" /\ tee_obs'[p] = tee_obs[p])
          /\ \A p \in TeeOutputs :
               (p \notin tee_consumers /\ tee_pc[p] = "idle" /\ tee_pc'[p] # "idle")
                   => (tee_pc'[p] = "done" /\ tee_pos' = tee_pos /\ tee_obs' = tee_obs
                       /\ tee_heap' = tee_heap)
          /\ (tee_pos = Len(tee_data) /\ \E p \in TeeOutputs : tee_pc[p] = "pulling" /\ tee_pc'[p] # "pulling")
                   => (tee_consumers' = {}
                       /\ \A c \in TeeOutputs : TeeOutstanding(c) => tee_heap'[tee_futs[c]] = FutEndOfStream)]_vars

BranchRemovalEnds ==
    /\ [](\A c \in BranchKeys : BranchOutstanding(c) => c \in br_branches)
    /\ [][/\ \A c \in BranchKeys :
               (c \in br_branches /\ c \notin br_branches' /\ BranchOutstanding(c))
                   => br_heap'[br_futs[c]] = FutEndOfStream
          /\ \A k \in BranchKeys :
               (BranchRequesting(k) /\ br_heap[br_fut[k]] = FutEndOfStream /\ br_pc'[k] # br_pc[k])
                   => (br_pc'[k] = "done" /\ br_obs'[k] = br_obs[k])
          /\ \A k \in BranchKeys :
               (k \notin br_branches /\ br_pc[k] = "idle" /\ br_pc'[k] # "idle")
                   => (br_pc'[k] = "done" /\ br_pos' = br_pos /\ br_obs' = br_obs
                       /\ br_heap' = br_heap)
          /\ (br_pos = Len(br_data) /\ \E k \in BranchKeys : br_pc[k] = "pulling" /\ br_pc'[k] # "pulling")
                   => (br_branches' = {}
                       /\ \A c \in BranchKeys : BranchOutstanding(c) => br_heap'[br_futs[c]] = FutEndOfStream)]_vars

\* C36: in a Tee and in a Branch, removing an output fails its outstanding
\* request with end-of-stream, which ends the output's next() without a
\* frame; a request of an output that is not attached ends with
\* end-of-stream and pulls nothing from the upstream; when the upstream
\* pull ends with end-of-stream every output is removed and every
\* outstanding request is failed with end-of-stream.
RemovalEndsOutput == TeeRemovalEnds /\ BranchRemovalEnds

\* an output removed while its request was outstanding ended with
\* end-of-stream although the upstream has frames left and another output
\* is still attached
TeeRemovedEnded ==
    \E c \in TeeOutputs :
        /\ c \notin tee_consumers /\ tee_consumers # {} /\ tee_pos < Len(tee_data)
        /\ tee_pc[c] = "done" /\ tee_fut[c] # 0 /\ tee_heap[tee_fut[c]] = FutEndOfStream
BranchRemovedEnded ==
    \E c \in BranchKeys :
        /\ c \notin br_branches /\ br_branches # {} /\ br_pos < Len(br_data)
        /\ br_pc[c] = "done" /\ br_fut[c] # 0 /\ br_heap[br_fut[c]] = FutEndOfStream
RemovalEndsOutputWitness == TeeRemovedEnded

\* ------------------------------------- starvation after removal (C37)
\* the event loop runs every task that can run: a task whose upstream pull
\* returned, a task whose future is done.  Calls of next() and of
\* remove_consumer / remove_branch are the application's choice.
RemovalFairness ==
    /\ \A p \in TeeOutputs : WF_vars(br_data = <<>> /\ (TeeConsumeFrame(p) \/ TeeWake(p)))
    /\ \A k \in BranchKeys : WF_vars(tee_data = <<>> /\ (BranchConsumeFrame(k) \/ BranchWake(k)))
SpecRemovalFair == SpecRemoval /\ RemovalFairness

\* every attached output has an outstanding request
TeeAllOutstanding == tee_consumers # {} /\ \A c \in tee_consumers : TeeOutstanding(c)
BranchAllOutstanding == br_branches # {} /\ \A c \in br_branches : BranchOutstanding(c)

\* C37: whenever every attached output of a Tee (every registered key of a
\* Branch) has an outstanding request, the upstream pull is running or
\* starts, and one of these requests completes later on.
RemovalNoStarvation ==
    /\ TeeAllOutstanding ~> ~ TeeAllOutstanding
    /\ BranchAllOutstanding ~> ~ BranchAllOutstanding

\* ------------------------------------ Tee over a failing upstream (C38)
\* the event loop runs every task that can run; calling next() again after
\* an exception is the application's choice
TeeFatalFairness ==
    \A p \in TeeOutputs :
        WF_vars(TeeConsumeFrame(p) \/ TeeWake(p) \/ \E x \in BOOLEAN : TeeConsumeError(p, x))
SpecTeeFatal == InitTee /\ [][TeeFatalNext]_vars /\ TeeFatalFairness

TeeRaised == \E p \in TeeOutputs : tee_pc[p] = "raised"

\* C38: once the upstream pull of a Tee raised a fatal exception in the
\* task of one output, no other output stays suspended in its request.
TeeFatalCompletesAll ==
    \A c \in TeeOutputs : (TeeRaised /\ tee_pc[c] = "wait_fut") ~> (tee_pc[c] # "wait_fut")

\* ----------------------------------- replays that stop early (C39)
SpecCacheStop == InitCache /\ [][CacheStopNext]_vars

\* the outcomes of the upstream itself
CacheUpstreamKinds == {"frame", "eos", "error"}

\* C39: a replay that stops early (its task is cancelled, or its bridge is
\* unmounted between two reads) adds nothing to the ledger, leaves the Cache
\* and the upstream mounted, and every replay whose task was not cancelled
\* reads only what the upstream produced.
CacheReplaysIsolated ==
    /\ [](\A i \in 1..Len(cached_data) : cached_data[i].kind \in CacheUpstreamKinds)
    /\ [][/\ \A r \in Replays :
               (cb_state[r] = "READY" /\ cb_state'[r] = "NULL" /\ ~ CacheEnded(cached_data'))
                   => (ca_state' = ca_state /\ ca_src_state' = ca_src_state)
          /\ \A r \in Replays :
               (cb_obs'[r] # cb_obs[r] /\ cb_pc[r] \notin {"fetch_cancelled", "wait_cancelled"})
                   => cb_obs'[r][Len(cb_obs'[r])].kind \in CacheUpstreamKinds]_vars

\* ------------------------------------------ first-separator chunks (C40)
InitFirstSeparator ==
    /\ ChunkInitOver({"firstseparator"}, {1}, {1}, {2}, {1}, {<<1>>, <<1, 2>>, <<1, 1>>})
    /\ TeeIdle /\ BranchIdle /\ CacheIdle /\ QueueIdle /\ ElIdle
SpecFirstSeparator == InitFirstSeparator /\ [][ChunkNext]_vars

\* the input up to and including its first separator
FirstSeparatorPrefix(data) == SplitOnce(separator, data)[1] \o separator

\* C40: a first-separator producer returns no chunk while the stream is open
\* and the input holds no separator; its first chunk is the input up to and
\* including the first separator, or the whole input when the stream was
\* closed without one; every later chunk is all the data buffered when it
\* is asked for, and the caller does not wait while data is buffered; the
\* chunks and the buffer together are the input.
FirstSeparatorChunks ==
    /\ []((open_buffer /\ ~ Contains(separator, ch_pushed)) => ch_chunks = <<>>)
    /\ [](ch_chunks # <<>> =>
             ch_chunks[1] = IF Contains(separator, ch_pushed)
                            THEN FirstSeparatorPrefix(ch_pushed) ELSE ch_pushed)
    /\ []((ch_chunks # <<>> /\ ch_pc = "waiting") => buffer = <<>>)
    /\ [](Concat(ch_chunks) \o buffer = ch_pushed)
    /\ [](ch_pc = "done" => Concat(ch_chunks) = ch_pushed)
    /\ [][(ch_chunks # <<>> /\ Len(ch_chunks') = Len(ch_chunks) + 1)
             => (ch_chunks'[Len(ch_chunks')] = buffer /\ buffer # <<>> /\ buffer' = <<>>)]_vars

\* a second chunk that holds a separator in its middle was returned while
\* the stream is open
FirstSeparatorChunksWitness ==
    /\ Len(ch_chunks) = 2 /\ open_buffer /\ ch_kind = "firstseparator"
    /\ Contains(separator, ch_chunks[2])
    /\ SplitOnce(separator, ch_chunks[2])[2] # <<>>
    /\ Len(ch_chunks[1]) > Len(separator)
====
